---- MODULE Spec2Model ----
(***************************************************************************)
(* Document model, transaction processor and surface model of the          *)
(* VisualEditor build (src/build/all.js).                                  *)
(*                                                                         *)
(* The linear data array is a sequence of items; the node tree is an arena *)
(* of node records addressed by identifier, so that object identity, the   *)
(* parent and root back-references and the stored content lengths are all  *)
(* part of the state.  A JavaScript exception is an error string carried   *)
(* with whatever had been mutated before the throw.                        *)
(***************************************************************************)
EXTENDS Integers, Sequences, FiniteSets, TLC

(***************************************************************************)
(* Linear data items.  An opening marker is {type, attributes?}, a closing *)
(* marker {type: '/'+type}, content a character with its annotation list.  *)
(* The attribute map is modelled for one key, "level"; 0 is "no            *)
(* attributes object".                                                     *)
(***************************************************************************)
Open(t, a) == [k |-> "open", t |-> t, at |-> a, an |-> <<>>]

Close(t) == [k |-> "close", t |-> t, at |-> 0, an |-> <<>>]

Char(c, an) == [k |-> "char", t |-> c, at |-> 0, an |-> an]

\* data[i].type !== undefined
IsElement(x) == x.k # "char"

IsOpening(x) == x.k = "open"

IsClosing(x) == x.k = "close"

NoError == "none"

TypeError == "TypeError"

Min(a, b) == IF a < b THEN a ELSE b

Max(a, b) == IF a > b THEN a ELSE b

(***************************************************************************)
(* Array.prototype.slice and Array.prototype.splice, with JavaScript's     *)
(* treatment of negative and out-of-range indexes.  Indexes are 0-based.   *)
(***************************************************************************)
RelIndex(len, i) == IF i < 0 THEN Max(len + i, 0) ELSE Min(i, len)

JsSlice(s, from, to) ==
    LET a == RelIndex(Len(s), from)
        b == RelIndex(Len(s), to)
    IN  IF b <= a THEN <<>> ELSE SubSeq(s, a + 1, b)

JsSplice(s, index, howmany, ins) ==
    LET a == RelIndex(Len(s), index)
        d == Min(Max(howmany, 0), Len(s) - a)
    IN  SubSeq(s, 1, a) \o ins \o SubSeq(s, a + d + 1, Len(s))

JsSpliceRemoved(s, index, howmany) ==
    LET a == RelIndex(Len(s), index)
        d == Min(Max(howmany, 0), Len(s) - a)
    IN  SubSeq(s, a + 1, a + d)

\* es.insertIntoArray( dst, offset, src )
insertIntoArray(dst, offset, src) == JsSplice(dst, offset, 0, src)

\* es.inArray / Array.prototype.indexOf: 0-based index or -1
RECURSIVE IndexFrom(_, _, _)
IndexFrom(s, x, i) ==
    IF i > Len(s) THEN -1
    ELSE IF s[i] = x THEN i - 1
    ELSE IndexFrom(s, x, i + 1)

inArray(x, s) == IndexFrom(s, x, 1)

(***************************************************************************)
(* Node registry.  Leaf constructors extend es.DocumentModelLeafNode,      *)
(* branch constructors es.DocumentModelBranchNode.                         *)
(***************************************************************************)
LeafTypes == {"paragraph", "pre", "heading"}

BranchTypes == {"list", "listItem", "table", "tableRow", "tableCell"}

nodeModels == LeafTypes \cup BranchTypes

\* es.DocumentModel.nodeRules: for each registered type the parent types and
\* the child types it allows; null (any type) is the flag, [] the empty set
nodeRules ==
    [t \in nodeModels \cup {"document"} |->
        CASE t = "document" ->
                 [anyParent |-> TRUE, parents |-> {},
                  anyChild |-> TRUE, children |-> {}]
          [] t \in LeafTypes ->
                 [anyParent |-> TRUE, parents |-> {},
                  anyChild |-> FALSE, children |-> {}]
          [] t = "list" ->
                 [anyParent |-> TRUE, parents |-> {},
                  anyChild |-> FALSE, children |-> {"listItem"}]
          [] t = "listItem" ->
                 [anyParent |-> FALSE, parents |-> {"list"},
                  anyChild |-> TRUE, children |-> {}]
          [] t = "table" ->
                 [anyParent |-> TRUE, parents |-> {},
                  anyChild |-> FALSE, children |-> {"tableRow"}]
          [] t = "tableRow" ->
                 [anyParent |-> FALSE, parents |-> {"table"},
                  anyChild |-> FALSE, children |-> {"tableCell"}]
          [] t = "tableCell" ->
                 [anyParent |-> FALSE, parents |-> {"tableRow"},
                  anyChild |-> TRUE, children |-> {}]]

(***************************************************************************)
(* Node arena.  Identifier 0 is null.  A node record holds what            *)
(* es.DocumentModelNode and es.DocumentBranchNode store: type, parent,     *)
(* root, contentLength (len) and, for a branch, the children array.  The   *)
(* element reference of a node is the opening marker in the data array.    *)
(***************************************************************************)
DocumentModelNode(id, type, leaf) ==
    [type |-> type, leaf |-> leaf, len |-> 0, parent |-> 0, root |-> id,
     children |-> <<>>]

Ok(nodes) == [nodes |-> nodes, err |-> NoError]

Fail(nodes, e) == [nodes |-> nodes, err |-> e]

getElementLength(nodes, id) == nodes[id].len + 2

\* hasChildren(): true for every branch node, children or not
hasChildren(nodes, id) == ~nodes[id].leaf

\* adjustContentLength that leaves the ancestors as they are
adjustContentLengthOfNode(nodes, id, adjustment) ==
    IF nodes[id].len + adjustment < 0
    THEN Fail(nodes, "Invalid adjustment error")
    ELSE Ok([nodes EXCEPT ![id].len = @ + adjustment])

RECURSIVE adjustContentLength(_, _, _)
adjustContentLength(nodes, id, adjustment) ==
    IF nodes[id].len + adjustment < 0
    THEN Fail(nodes, "Invalid adjustment error")
    ELSE LET n1 == [nodes EXCEPT ![id].len = @ + adjustment]
         IN  IF nodes[id].parent # 0
             THEN adjustContentLength(n1, nodes[id].parent, adjustment)
             ELSE Ok(n1)

\* setContentLength that leaves the ancestors as they are
setContentLengthOfNode(nodes, id, contentLength) ==
    IF contentLength < 0
    THEN Fail(nodes, "Invalid content length error")
    ELSE Ok([nodes EXCEPT ![id].len = contentLength])

setContentLength(nodes, id, contentLength) ==
    IF contentLength < 0
    THEN Fail(nodes, "Invalid content length error")
    ELSE LET diff == contentLength - nodes[id].len
             n1 == [nodes EXCEPT ![id].len = contentLength]
         IN  IF nodes[id].parent # 0
             THEN adjustContentLength(n1, nodes[id].parent, diff)
             ELSE Ok(n1)

\* setRoot / clearRoot: a branch node cascades to all its descendants
RECURSIVE setRoot(_, _, _)
RECURSIVE SetRootAll(_, _, _, _)
SetRootAll(nodes, ids, i, root) ==
    IF i > Len(ids) THEN nodes
    ELSE SetRootAll(setRoot(nodes, ids[i], root), ids, i + 1, root)

setRoot(nodes, id, root) ==
    SetRootAll([nodes EXCEPT ![id].root = root], nodes[id].children, 1, root)

\* clearRoot that does not cascade to the children
clearRootOfNode(nodes, id) == [nodes EXCEPT ![id].root = 0]

clearRoot(nodes, id) == setRoot(nodes, id, 0)

attach(nodes, id, parent) ==
    setRoot([nodes EXCEPT ![id].parent = parent], id, nodes[parent].root)

detach(nodes, id) == clearRoot([nodes EXCEPT ![id].parent = 0], id)

RECURSIVE AttachAll(_, _, _, _)
AttachAll(nodes, ids, i, parent) ==
    IF i > Len(ids) THEN nodes
    ELSE AttachAll(attach(nodes, ids[i], parent), ids, i + 1, parent)

RECURSIVE DetachAll(_, _, _)
DetachAll(nodes, ids, i) ==
    IF i > Len(ids) THEN nodes
    ELSE DetachAll(detach(nodes, ids[i]), ids, i + 1)

RECURSIVE SumElementLength(_, _, _)
SumElementLength(nodes, ids, i) ==
    IF i > Len(ids) THEN 0
    ELSE getElementLength(nodes, ids[i]) + SumElementLength(nodes, ids, i + 1)

\* es.DocumentModelBranchNode.prototype.push; a leaf has no push method
push(nodes, this, child) ==
    IF this = 0 \/ nodes[this].leaf THEN Fail(nodes, TypeError)
    ELSE LET Attached(n2) ==
                 adjustContentLength(n2, this, getElementLength(n2, child))
         IN  Attached([attach(nodes, child, this) EXCEPT
                          ![this].children = Append(@, child)])

\* es.DocumentModelBranchNode.prototype.pop: nothing happens without children
pop(nodes, this) ==
    IF Len(nodes[this].children) = 0 THEN Ok(nodes)
    ELSE LET childModel == nodes[this].children[Len(nodes[this].children)]
             Detached(n1) ==
                 adjustContentLength(
                     [n1 EXCEPT ![this].children =
                          SubSeq(@, 1, Len(@) - 1)],
                     this, 0 - getElementLength(n1, childModel))
         IN  Detached(detach(nodes, childModel))

\* es.DocumentModelBranchNode.prototype.shift
shift(nodes, this) ==
    IF Len(nodes[this].children) = 0 THEN Ok(nodes)
    ELSE LET childModel == nodes[this].children[1]
             Detached(n1) ==
                 adjustContentLength(
                     [n1 EXCEPT ![this].children = Tail(@)],
                     this, 0 - getElementLength(n1, childModel))
         IN  Detached(detach(nodes, childModel))

\* es.DocumentModelBranchNode.prototype.splice
splice(nodes, this, index, howmany, newNodes) ==
    IF this = 0 \/ nodes[this].leaf THEN Fail(nodes, TypeError)
    ELSE LET Attached(n1) ==
                 LET removals == JsSpliceRemoved(n1[this].children, index,
                                                 howmany)
                     Detached(n3) ==
                         adjustContentLength(n3, this,
                             SumElementLength(n1, newNodes, 1)
                                 - SumElementLength(n3, removals, 1))
                 IN  Detached(DetachAll(
                         [n1 EXCEPT ![this].children =
                              JsSplice(@, index, howmany, newNodes)],
                         removals, 1))
         IN  Attached(AttachAll(nodes, newNodes, 1, this))

(***************************************************************************)
(* es.DocumentModel.createNodesFromData: one scan of the data, descending  *)
(* on an opening marker, ascending on a closing one, and absorbing a run   *)
(* of content into the current node's content length.  The result carries  *)
(* the arena, the list of created top-level nodes and the error, if any.   *)
(***************************************************************************)
\* while ( data[i].type === undefined && i < length ) i++ : the index of
\* the first element after a run of content.  The test reads data[i] before
\* it compares i with length, so a run that reaches the end of the data
\* reads the type of undefined: the result is then 0 (a TypeError)
RECURSIVE ContentRunEnd(_, _)
ContentRunEnd(data, i) ==
    IF i > Len(data) THEN 0
    ELSE IF ~IsElement(data[i]) THEN ContentRunEnd(data, i + 1)
    ELSE i

RECURSIVE CreateNodesScan(_, _, _, _)
CreateNodesScan(nodes, currentNode, data, i) ==
    IF i > Len(data)
    THEN IF currentNode = 0 \/ nodes[currentNode].leaf
         THEN [nodes |-> nodes, list |-> <<>>, err |-> TypeError]
         ELSE [nodes |-> nodes, list |-> nodes[currentNode].children,
               err |-> NoError]
    ELSE IF IsElement(data[i])
    THEN IF IsOpening(data[i])
         THEN IF data[i].t \notin nodeModels
              THEN [nodes |-> nodes, list |-> <<>>,
                    err |-> "Unsuported element error"]
              ELSE LET id == Len(nodes) + 1
                       Pushed(r) ==
                           IF r.err # NoError
                           THEN [nodes |-> r.nodes, list |-> <<>>,
                                 err |-> r.err]
                           ELSE CreateNodesScan(r.nodes, id, data, i + 1)
                   IN  Pushed(push(Append(nodes,
                                       DocumentModelNode(id, data[i].t,
                                           data[i].t \in LeafTypes)),
                                   currentNode, id))
         ELSE IF currentNode = 0
              THEN [nodes |-> nodes, list |-> <<>>, err |-> TypeError]
              ELSE CreateNodesScan(nodes, nodes[currentNode].parent, data, i + 1)
    ELSE LET j == ContentRunEnd(data, i)
         IN  IF currentNode = 0 \/ j = 0
             THEN [nodes |-> nodes, list |-> <<>>, err |-> TypeError]
             ELSE LET Absorbed(r) ==
                          IF r.err # NoError
                          THEN [nodes |-> r.nodes, list |-> <<>>,
                                err |-> r.err]
                          ELSE CreateNodesScan(r.nodes, currentNode, data, j)
                  IN  Absorbed(setContentLength(nodes, currentNode, j - i))

createNodesFromData(nodes, data) ==
    CreateNodesScan(Append(nodes, DocumentModelNode(Len(nodes) + 1, "", FALSE)),
                    Len(nodes) + 1, data, 1)

(***************************************************************************)
(* The document: the data array with the arena; node 1 is the              *)
(* es.DocumentModel itself (type 'document', no element).                  *)
(***************************************************************************)
Root == 1

RECURSIVE PushAll(_, _, _, _)
PushAll(nodes, this, ids, i) ==
    IF i > Len(ids) THEN Ok(nodes)
    ELSE LET Pushed(r) ==
                 IF r.err # NoError THEN r
                 ELSE PushAll(r.nodes, this, ids, i + 1)
         IN  Pushed(push(nodes, this, ids[i]))

\* new es.DocumentModel( data )
DocumentModel(data) ==
    LET Created(c) ==
            IF c.err # NoError
            THEN [data |-> data, nodes |-> c.nodes, err |-> c.err]
            ELSE LET Pushed(r) ==
                         [data |-> data, nodes |-> r.nodes, err |-> r.err]
                 IN  Pushed(PushAll(c.nodes, Root, c.list, 1))
    IN  Created(createNodesFromData(
                    <<DocumentModelNode(Root, "document", FALSE)>>, data))

(***************************************************************************)
(* Offset and node translation of es.DocumentBranchNode.                   *)
(***************************************************************************)
RECURSIVE getNodeFromOffset(_, _, _, _)
RECURSIVE NodeFromOffsetLoop(_, _, _, _, _, _)
NodeFromOffsetLoop(nodes, this, offset, shallow, i, nodeOffset) ==
    IF i > Len(nodes[this].children)
    THEN IF offset = nodeOffset THEN this ELSE 0
    ELSE LET childNode == nodes[this].children[i]
             nodeLength == getElementLength(nodes, childNode)
         IN  IF offset = nodeOffset THEN this
             ELSE IF offset >= nodeOffset /\ offset < nodeOffset + nodeLength
             THEN IF ~shallow /\ hasChildren(nodes, childNode)
                       /\ Len(nodes[childNode].children) > 0
                  THEN getNodeFromOffset(nodes, childNode,
                                         offset - nodeOffset - 1, FALSE)
                  ELSE childNode
             ELSE NodeFromOffsetLoop(nodes, this, offset, shallow, i + 1,
                                     nodeOffset + nodeLength)

getNodeFromOffset(nodes, this, offset, shallow) ==
    IF offset = 0 THEN this
    ELSE IF Len(nodes[this].children) > 0
    THEN NodeFromOffsetLoop(nodes, this, offset, shallow, 1, 0)
    ELSE 0

RECURSIVE getOffsetFromNode(_, _, _, _)
RECURSIVE OffsetFromNodeLoop(_, _, _, _, _, _)
OffsetFromNodeLoop(nodes, this, node, shallow, i, offset) ==
    IF i > Len(nodes[this].children) THEN -1
    ELSE LET childNode == nodes[this].children[i]
             childOffset ==
                 IF ~shallow /\ hasChildren(nodes, childNode)
                     /\ Len(nodes[childNode].children) > 0
                 THEN getOffsetFromNode(nodes, childNode, node, FALSE)
                 ELSE -1
         IN  IF childNode = node THEN offset
             ELSE IF childOffset # -1 THEN offset + 1 + childOffset
             ELSE OffsetFromNodeLoop(nodes, this, node, shallow, i + 1,
                      offset + getElementLength(nodes, childNode))

\* getOffsetFromNode that counts the opening marker of the node in
getOffsetFromNodePastOpening(nodes, this, node, shallow) ==
    IF node = this THEN 0
    ELSE 1 + OffsetFromNodeLoop(nodes, this, node, shallow, 1, 0)

getOffsetFromNode(nodes, this, node, shallow) ==
    IF node = this THEN 0
    ELSE OffsetFromNodeLoop(nodes, this, node, shallow, 1, 0)

RECURSIVE IndexFromOffsetLoop(_, _, _, _, _)
IndexFromOffsetLoop(nodes, this, offset, i, left) ==
    IF i > Len(nodes[this].children) THEN -1
    ELSE LET elementLength == getElementLength(nodes, nodes[this].children[i])
         IN  IF offset >= left /\ offset < left + elementLength THEN i - 1
             ELSE IndexFromOffsetLoop(nodes, this, offset, i + 1,
                                      left + elementLength)

getIndexFromOffset(nodes, this, offset) ==
    IndexFromOffsetLoop(nodes, this, offset, 1, 0)

indexOf(nodes, this, node) == inArray(node, nodes[this].children)

(***************************************************************************)
(* es.DocumentNode.getCommonAncestorPaths: walk up from both nodes at the  *)
(* same pace; found = FALSE is the `false` result.                         *)
(***************************************************************************)
RECURSIVE CommonAncestorWalk(_, _, _, _, _)
CommonAncestorWalk(nodes, n1, n2, path1, path2) ==
    IF n1 = n2
    THEN [found |-> TRUE, commonAncestor |-> n1,
          node1Path |-> path1, node2Path |-> path2]
    ELSE LET p1 == nodes[n1].parent
             p2 == nodes[n2].parent
         IN  IF p1 = 0 \/ p2 = 0
             THEN [found |-> FALSE, commonAncestor |-> 0,
                   node1Path |-> <<>>, node2Path |-> <<>>]
             ELSE CommonAncestorWalk(nodes, p1, p2, Append(path1, n1),
                                     Append(path2, n2))

\* getCommonAncestorPaths that takes the first node for the common ancestor
getCommonAncestorPathsOfFirst(nodes, node1, node2) ==
    [found |-> TRUE, commonAncestor |-> node1, node1Path |-> <<>>,
     node2Path |-> <<>>]

getCommonAncestorPaths(nodes, node1, node2) ==
    CommonAncestorWalk(nodes, node1, node2, <<>>, <<>>)

(***************************************************************************)
(* es.DocumentBranchNode.prototype.selectNodes.  An entry is               *)
(* {node, range?, globalRange}; hasRange = FALSE is an absent 'range'.     *)
(***************************************************************************)
Range(from, to) == [start |-> Min(from, to), end |-> Max(from, to)]

\* An entry whose globalRange is the range inside the node
PartEntryUntranslated(node, r, g) ==
    [node |-> node, hasRange |-> TRUE, range |-> r, globalRange |-> r]

PartEntry(node, r, g) ==
    [node |-> node, hasRange |-> TRUE, range |-> r, globalRange |-> g]

FullEntry(node, g) ==
    [node |-> node, hasRange |-> FALSE, range |-> Range(0, 0),
     globalRange |-> g]

Selected(list) == [list |-> list, err |-> NoError]

SelectError(e) == [list |-> <<>>, err |-> e]

RECURSIVE selectNodes(_, _, _, _, _, _)
RECURSIVE SelectLoop(_, _, _, _, _, _, _, _, _)
SelectLoop(nodes, this, start, end, shallow, offset, i, left, acc) ==
    LET childNode == nodes[this].children[i]
        right == left + nodes[childNode].len
        startInside == start >= left /\ start <= right
        endInside == end >= left /\ end <= right
        flat == shallow \/ nodes[childNode].leaf
        full == FullEntry(childNode,
                          Range(left - 1 + offset, right + 1 + offset))
        \* the part of the loop body after the if/else chain
        Continue(acc2) ==
            IF end < right + 2 THEN Selected(acc2)
            ELSE IF i = Len(nodes[this].children)
            THEN IF start > right + 1
                 THEN SelectError("The start offset of the range is past the end of the node")
                 ELSE SelectError("The end offset of the range is past the end of the node")
            ELSE SelectLoop(nodes, this, start, end, shallow, offset, i + 1,
                            right + 2, acc2)
    IN  IF start = end /\ (start = left - 1 \/ start = right + 1)
        THEN Selected(<<PartEntry(this, Range(start, end),
                                  Range(start + offset, end + offset))>>)
        ELSE IF startInside /\ endInside
        THEN IF flat
             THEN Selected(<<PartEntry(childNode,
                                Range(start - left, end - left),
                                Range(start + offset, end + offset))>>)
             ELSE selectNodes(nodes, childNode, start - left, end - left,
                              FALSE, left + offset)
        ELSE IF startInside
        THEN IF flat
             THEN Continue(Append(acc, PartEntry(childNode,
                                Range(start - left, right - left),
                                Range(start + offset, right + offset))))
             ELSE LET r == selectNodes(nodes, childNode, start - left,
                                       right - left, FALSE, left + offset)
                  IN  IF r.err # NoError THEN r ELSE Continue(acc \o r.list)
        ELSE IF endInside
        THEN IF flat
             THEN Selected(Append(acc, PartEntry(childNode,
                                Range(0, end - left),
                                Range(left + offset, end + offset))))
             ELSE LET r == selectNodes(nodes, childNode, 0, end - left,
                                       FALSE, left + offset)
                  IN  IF r.err # NoError THEN r ELSE Selected(acc \o r.list)
        ELSE IF end = right + 1 THEN Selected(Append(acc, full))
        ELSE IF start = left - 1 THEN Continue(Append(acc, full))
        ELSE IF Len(acc) > 0 THEN Continue(Append(acc, full))
        ELSE Continue(acc)

selectNodes(nodes, this, start, end, shallow, offset) ==
    IF start < 0
    THEN SelectError("The start offset of the range is negative")
    ELSE IF Len(nodes[this].children) = 0
    THEN IF end > nodes[this].len
         THEN SelectError("The end offset of the range is past the end of the node")
         ELSE Selected(<<PartEntry(this, Range(start, end),
                                   Range(start + offset, end + offset))>>)
    ELSE SelectLoop(nodes, this, start, end, shallow, offset, 1, 1, <<>>)

(***************************************************************************)
(* Static predicates of es.DocumentModel over a data array.  Offsets are   *)
(* 0-based as in the source; data[offset] is the item at index offset + 1. *)
(***************************************************************************)
\* data[offset - 1] or data[offset] is read past the array: a TypeError
StructuralOffsetFails(data, offset) == offset > Len(data)

\* isStructuralOffset without the exception for an opening marker followed by
\* its own closing marker
isStructuralOffsetBetweenMarkers(data, offset) ==
    IF offset = 0 \/ offset = Len(data) THEN TRUE
    ELSE IsElement(data[offset]) /\ IsElement(data[offset + 1])

isStructuralOffset(data, offset) ==
    IF offset = 0 \/ offset = Len(data) THEN TRUE
    ELSE IF IsElement(data[offset]) /\ IsElement(data[offset + 1])
    THEN ~(IsOpening(data[offset]) /\ IsClosing(data[offset + 1])
             /\ data[offset].t = data[offset + 1].t)
    ELSE FALSE

containsElementData(data) == \E i \in 1..Len(data) : IsElement(data[i])

\* getIndexOfAnnotation that finds nothing
getIndexOfAnnotationNotFound(annotations, annotation) == -1

\* es.DocumentModel.getIndexOfAnnotation on a list of annotations (hash
\* comparison; the hash is the canonical text of type and data)
getIndexOfAnnotation(annotations, annotation) == inArray(annotation, annotations)

(***************************************************************************)
(* Transactions (es.TransactionModel): operations and lengthDifference.    *)
(***************************************************************************)
NoAnnotation == [type |-> "", data |-> 0]

Operation(type) ==
    [type |-> type, length |-> 0, data |-> <<>>, method |-> "", key |-> "",
     value |-> 0, bias |-> "", annotation |-> NoAnnotation]

TransactionModel == [operations |-> <<>>, lengthDifference |-> 0]

\* new es.TransactionModel( operations ) with a list of operations
TransactionModelOf(operations) ==
    [operations |-> operations, lengthDifference |-> 0]

pushRetain(tx, length) ==
    LET end == Len(tx.operations)
    IN  IF end > 0 /\ tx.operations[end].type = "retain"
        THEN [tx EXCEPT !.operations[end].length = @ + length]
        ELSE [tx EXCEPT !.operations =
                  Append(@, [Operation("retain") EXCEPT !.length = length])]

pushInsert(tx, data) ==
    LET end == Len(tx.operations)
        ops == IF end > 0 /\ tx.operations[end].type = "insert"
               THEN [tx.operations EXCEPT ![end].data = @ \o data]
               ELSE Append(tx.operations,
                           [Operation("insert") EXCEPT !.data = data])
    IN  [operations |-> ops,
         lengthDifference |-> tx.lengthDifference + Len(data)]

pushRemove(tx, data) ==
    LET end == Len(tx.operations)
        ops == IF end > 0 /\ tx.operations[end].type = "remove"
               THEN [tx.operations EXCEPT ![end].data = @ \o data]
               ELSE Append(tx.operations,
                           [Operation("remove") EXCEPT !.data = data])
    IN  [operations |-> ops,
         lengthDifference |-> tx.lengthDifference - Len(data)]

pushChangeElementAttribute(tx, method, key, value) ==
    [tx EXCEPT !.operations =
         Append(@, [Operation("attribute") EXCEPT !.method = method,
                        !.key = key, !.value = value])]

pushStartAnnotating(tx, method, annotation) ==
    [tx EXCEPT !.operations =
         Append(@, [Operation("annotate") EXCEPT !.method = method,
                        !.bias = "start", !.annotation = annotation])]

pushStopAnnotating(tx, method, annotation) ==
    [tx EXCEPT !.operations =
         Append(@, [Operation("annotate") EXCEPT !.method = method,
                        !.bias = "stop", !.annotation = annotation])]

(***************************************************************************)
(* es.TransactionProcessor.  The processor state P is the document (data,  *)
(* nodes), the cursor, the pending annotation lists set and clear, and the *)
(* error thrown, after which nothing more is done.  updates lists what a   *)
(* listener of 'update' on a node of the document sees, one entry per      *)
(* notification: the linear array and the tree at that moment.  The nodes  *)
(* that createNodesFromData is still building have no listener yet.        *)
(***************************************************************************)
TransactionProcessor(doc) ==
    [data |-> doc.data, nodes |-> doc.nodes, cursor |-> 0, set |-> <<>>,
     clear |-> <<>>, err |-> NoError, updates |-> <<>>]

Throw(P, e) == [P EXCEPT !.err = e]

\* node.emit( 'update' ) once the handler got there without an exception
Emit(P) ==
    IF P.err # NoError THEN P
    ELSE [P EXCEPT !.updates = Append(@, [data |-> P.data, nodes |-> P.nodes])]

\* rebuildNodes( newData, oldNodes, parent, index ); hasOld = FALSE is a
\* null oldNodes, parent = 0 a null parent, index = 0 a null or zero index
rebuildNodes(nodes, newData, hasOld, oldNodes, parent0, index0) ==
    LET Failed(n, e) == [nodes |-> n, err |-> e, emitted |-> <<>>]
        \* parent.splice emits 'update' at its end
        Done(r, mid) ==
            [nodes |-> r.nodes, err |-> r.err,
             emitted |-> IF r.err # NoError THEN mid
                         ELSE Append(mid, r.nodes)]
        \* the nodes after the first node was kept and resized, or as built;
        \* oldNode.adjustContentLength is not quiet: the kept node emits
        \* 'update' before the other nodes are spliced
        Spliced(a, kept, parent, index, remove, list) ==
            IF a.err # NoError THEN Failed(a.nodes, a.err)
            ELSE Done(splice(a.nodes, parent, index, remove, list),
                      IF kept THEN <<a.nodes>> ELSE <<>>)
        Built(c, n1) ==
            IF c.err # NoError THEN Failed(n1, c.err)
            ELSE IF ~hasOld
            THEN Spliced(Ok(n1), FALSE, parent0, index0, 0, c.list)
            ELSE IF Len(oldNodes) = 0 THEN Failed(n1, TypeError)
            ELSE LET first == oldNodes[1]
                     isRoot == n1[first].root = first
                     parent == IF isRoot THEN first
                               ELSE IF parent0 # 0 THEN parent0
                               ELSE n1[first].parent
                 IN  IF parent = 0 \/ n1[parent].leaf
                     THEN Failed(n1, TypeError)
                     ELSE LET index == IF isRoot THEN 0
                                       ELSE IF index0 # 0 THEN index0
                                       ELSE indexOf(n1, parent, first)
                              remove == IF isRoot
                                        THEN Len(n1[parent].children)
                                        ELSE Len(oldNodes)
                              preserve ==
                                  /\ Len(c.list) > 0
                                  /\ n1[c.list[1]].type = n1[first].type
                                  /\ ~hasChildren(n1, c.list[1])
                          IN  IF preserve
                              THEN Spliced(
                                       adjustContentLength(n1, first,
                                           n1[c.list[1]].len - n1[first].len),
                                       TRUE, parent, index + 1, remove - 1,
                                       Tail(c.list))
                              ELSE Spliced(Ok(n1), FALSE, parent, index,
                                           remove, c.list)
        Created(c) == Built(c, c.nodes)
    IN  Created(createNodesFromData(nodes, newData))

\* getScope( node, data ): 0 when the walk leaves the tree (null), -1 when
\* getParent() is called on null
RECURSIVE ScopeLevelMax(_, _, _, _)
ScopeLevelMax(data, i, level, max) ==
    IF i > Len(data) THEN max
    ELSE IF IsElement(data[i])
    THEN LET l2 == level + (IF IsClosing(data[i]) THEN 1 ELSE -1)
         IN  ScopeLevelMax(data, i + 1, l2, Max(max, l2))
    ELSE ScopeLevelMax(data, i + 1, level, max)

RECURSIVE ScopeUp(_, _, _)
ScopeUp(nodes, node, steps) ==
    IF steps <= 0 THEN node
    ELSE IF node = 0 THEN -1
    ELSE ScopeUp(nodes, nodes[node].parent, steps - 1)

getScope(nodes, node, data) ==
    ScopeUp(nodes, node, ScopeLevelMax(data, 1, 0, 0) - 1)

\* The per-item effect of applyAnnotations
RECURSIVE PushAnnotations(_, _, _)
PushAnnotations(item, set, i) ==
    IF i > Len(set) THEN item
    ELSE PushAnnotations([k |-> "char", t |-> item.t, at |-> item.at,
                          an |-> Append(item.an, set[i])], set, i + 1)

RemoveAnnotation(item, annotation) ==
    LET index == getIndexOfAnnotation(item.an, annotation)
    IN  IF IsElement(item) \/ index = -1 THEN item
        ELSE [item EXCEPT !.an = JsSplice(@, index, 1, <<>>)]

RECURSIVE RemoveAnnotations(_, _, _)
RemoveAnnotations(item, clear, i) ==
    IF i > Len(clear) THEN item
    ELSE RemoveAnnotations(RemoveAnnotation(item, clear[i]), clear, i + 1)

Undefined == Char("undefined", <<>>)

\* applyAnnotations( to, update )
applyAnnotations(P, to, update) ==
    LET len == Len(P.data)
        changes == Len(P.set) > 0 \/ Len(P.clear) > 0
        \* a set pass writes [undefined, annotation] past the end of the array
        len1 == IF Len(P.set) > 0 /\ to > P.cursor THEN Max(len, to) ELSE len
        d1 == [j \in 1..len1 |->
                 LET item == IF j <= len THEN P.data[j] ELSE Undefined
                 IN  IF j > P.cursor /\ j <= to
                     THEN PushAnnotations(item, P.set, 1)
                     ELSE item]
        d2 == [j \in 1..len1 |->
                 IF j > P.cursor /\ j <= to
                 THEN RemoveAnnotations(d1[j], P.clear, 1)
                 ELSE d1[j]]
        fromNode == getNodeFromOffset(P.nodes, Root, P.cursor, FALSE)
        \* a clear pass reads .length of undefined past the end of the array
        dThrown == [j \in 1..len1 |->
                      IF j > P.cursor /\ j <= to
                      THEN RemoveAnnotation(d1[j], P.clear[1])
                      ELSE d1[j]]
    IN  IF Len(P.clear) > 0 /\ to > len1 /\ to > P.cursor
        THEN Throw([P EXCEPT !.data = dThrown], TypeError)
        ELSE IF update /\ changes /\ (fromNode = 0 \/ fromNode = Root)
        THEN Throw([P EXCEPT !.data = d2], TypeError)
        ELSE IF update /\ changes THEN Emit([P EXCEPT !.data = d2])
        ELSE [P EXCEPT !.data = d2]

\* A retain() that applies the annotations and leaves the cursor in place
retainInPlace(P, op) ==
    applyAnnotations(P, P.cursor + op.length, TRUE)

retain(P, op) ==
    LET Annotated(P1) ==
            IF P1.err # NoError THEN P1
            ELSE [P1 EXCEPT !.cursor = @ + op.length]
    IN  Annotated(applyAnnotations(P, P.cursor + op.length, TRUE))

\* Lift an arena result into the processor state
WithNodes(P, r) == [P EXCEPT !.nodes = r.nodes, !.err = r.err]

\* The same for rebuildNodes, with the notifications it emitted
WithUpdates(P, r) ==
    [P EXCEPT !.nodes = r.nodes, !.err = r.err,
              !.updates = @ \o [i \in 1..Len(r.emitted) |->
                                   [data |-> P.data, nodes |-> r.emitted[i]]]]

insert(P, op) ==
    LET \* es.insertIntoArray and applyAnnotations( cursor + length )
        Inserted ==
            applyAnnotations(
                [P EXCEPT !.data = insertIntoArray(@, P.cursor, op.data)],
                P.cursor + Len(op.data), FALSE)
        \* the cursor moves once the tree was updated
        Rebuilt(P2) ==
            IF P2.err # NoError THEN P2
            ELSE [P2 EXCEPT !.cursor = @ + Len(op.data)]
        \* insertion between elements: new nodes spliced into the parent
        Structural(P1, node) ==
            IF P1.err # NoError THEN P1
            ELSE IF node = 0 \/ P.nodes[node].leaf THEN Throw(P1, TypeError)
            ELSE Rebuilt(WithUpdates(P1,
                     rebuildNodes(P1.nodes, op.data, FALSE, <<>>, node,
                         getIndexFromOffset(P.nodes, node,
                             P.cursor
                                 - getOffsetFromNode(P.nodes, Root, node,
                                                     FALSE)))))
        \* insertion into content: the scope node rebuilt or resized
        Content(P1, node) ==
            LET offset == IF node = 0 THEN -1
                          ELSE getOffsetFromNode(P.nodes, Root, node, FALSE)
            IN  IF P1.err # NoError THEN P1
                ELSE IF containsElementData(op.data)
                THEN IF offset = -1
                     THEN Throw(P1, "Invalid offset error")
                     ELSE Rebuilt(WithUpdates(P1,
                              rebuildNodes(P1.nodes,
                                  JsSlice(P1.data, offset,
                                      offset
                                      + getElementLength(P1.nodes, node)
                                      + Len(op.data)),
                                  TRUE, <<node>>, 0, 0)))
                ELSE IF node = 0 THEN Throw(P1, TypeError)
                ELSE Rebuilt(Emit(WithNodes(P1,
                         adjustContentLength(P1.nodes, node, Len(op.data)))))
        Scoped(node0) ==
            IF node0 = 0 THEN Throw(P, TypeError)
            ELSE LET node == IF P.nodes[node0].parent = Root THEN node0
                             ELSE getScope(P.nodes, node0, op.data)
                 IN  IF node = -1 THEN Throw(P, TypeError)
                     ELSE Content(Inserted, node)
    IN  IF StructuralOffsetFails(P.data, P.cursor) THEN Throw(P, TypeError)
        ELSE IF isStructuralOffset(P.data, P.cursor) /\ P.cursor # Len(P.data)
        THEN Structural(Inserted,
                        getNodeFromOffset(P.nodes, Root, P.cursor, FALSE))
        ELSE Scoped(getNodeFromOffset(P.nodes, Root, P.cursor, FALSE))

\* The first loop of remove: the nodes to rebuild, the data to keep and the
\* first and last node that is kept in part
RECURSIVE RemoveScan(_, _, _, _)
RemoveScan(P, ranges, i, acc) ==
    IF i > Len(ranges) THEN acc
    ELSE LET e == ranges[i]
             startOffset == e.globalRange.start - e.range.start
             endOffset == startOffset + P.nodes[e.node].len
             nodeData == JsSplice(JsSlice(P.data, startOffset, endOffset),
                                  e.range.start, e.range.end - e.range.start,
                                  <<>>)
         IN  RemoveScan(P, ranges, i + 1,
                 IF e.hasRange
                 THEN [oldNodes |-> Append(acc.oldNodes, e.node),
                       newData |-> acc.newData \o nodeData,
                       firstKeptNode |-> IF acc.firstKeptNode = 0 THEN e.node
                                         ELSE acc.firstKeptNode,
                       lastKeptNode |-> e.node]
                 ELSE [acc EXCEPT !.oldNodes = Append(@, e.node)])

\* The opening marker a node refers to (node.getElement()): the item of the
\* data array at the node's offset
getElement(P, node) ==
    LET offset == getOffsetFromNode(P.nodes, Root, node, FALSE)
    IN  IF offset >= 0 /\ offset < Len(P.data) /\ IsOpening(P.data[offset + 1])
           /\ P.data[offset + 1].t = P.nodes[node].type
        THEN P.data[offset + 1]
        ELSE Open(P.nodes[node].type, 0)

RECURSIVE Openings(_, _, _)
Openings(P, path, i) ==
    IF i > Len(path) THEN <<>>
    ELSE Openings(P, path, i + 1) \o <<getElement(P, path[i])>>

RECURSIVE Closings(_, _, _)
Closings(P, path, i) ==
    IF i > Len(path) THEN <<>>
    ELSE <<Close(P.nodes[path[i]].type)>> \o Closings(P, path, i + 1)

\* Siblings of prevN1 up to and including prevN2; found = FALSE is the
\* tree corruption error
RECURSIVE SiblingsUpTo(_, _, _, _)
SiblingsUpTo(children, j, prevN2, acc) ==
    IF j > Len(children) THEN [found |-> FALSE, list |-> acc]
    ELSE IF children[j] = prevN2
    THEN [found |-> TRUE, list |-> Append(acc, children[j])]
    ELSE SiblingsUpTo(children, j + 1, prevN2, Append(acc, children[j]))

remove(P, op) ==
    IF containsElementData(op.data)
    THEN
      LET spliced == [P EXCEPT !.data =
                          JsSplice(@, P.cursor, Len(op.data), <<>>)]
          \* the merge of the first and the last node kept in part
          Merged(scan, paths) ==
              LET mismatch == \E i \in 1..Len(paths.node1Path) :
                                  P.nodes[paths.node1Path[i]].type
                                      # P.nodes[paths.node2Path[i]].type
                  depth == Len(paths.node1Path)
                  prevN1 == IF depth > 0 THEN paths.node1Path[depth] ELSE 0
                  prevN2 == IF depth > 0 THEN paths.node2Path[depth] ELSE 0
                  merge == scan.firstKeptNode # 0
                  regroup == merge /\ prevN1 # 0
                                 /\ prevN1 # scan.oldNodes[1]
                  index == indexOf(P.nodes, paths.commonAncestor, prevN1)
                  sib == SiblingsUpTo(P.nodes[paths.commonAncestor].children,
                                      index + 2, prevN2, <<prevN1>>)
                  newData == IF ~merge THEN scan.newData
                             ELSE Openings(P, paths.node1Path, 1)
                                      \o scan.newData
                                      \o Closings(P, paths.node2Path, 1)
              IN  IF merge /\ ~paths.found
                  THEN Throw(P,
                           "Removal is not a valid merge: no common ancestor")
                  ELSE IF merge /\ mismatch
                  THEN Throw(P,
                           "Removal is not a valid merge: different types")
                  ELSE IF regroup /\ (index = -1 \/ ~sib.found)
                  THEN Throw(P, "Tree corruption detected")
                  ELSE WithUpdates(spliced,
                           rebuildNodes(P.nodes, newData, TRUE,
                               IF regroup THEN sib.list ELSE scan.oldNodes,
                               IF regroup THEN paths.commonAncestor ELSE 0,
                               IF regroup THEN index ELSE 0))
          Scanned(scan) ==
              Merged(scan,
                     getCommonAncestorPaths(P.nodes, scan.firstKeptNode,
                                            scan.lastKeptNode))
          NodesSelected(sel) ==
              IF sel.err # NoError THEN Throw(P, sel.err)
              ELSE Scanned(RemoveScan(P, sel.list, 1,
                               [oldNodes |-> <<>>, newData |-> <<>>,
                                firstKeptNode |-> 0, lastKeptNode |-> 0]))
      IN  NodesSelected(selectNodes(P.nodes, Root, P.cursor,
                                    P.cursor + Len(op.data), FALSE, 0))
    ELSE
      LET node == getNodeFromOffset(P.nodes, Root, P.cursor, FALSE)
          Resized(r) ==
              IF r.err # NoError THEN WithNodes(P, r)
              ELSE Emit([WithNodes(P, r) EXCEPT !.data =
                             JsSplice(@, P.cursor, Len(op.data), <<>>)])
      IN  IF node = 0 THEN Throw(P, TypeError)
          ELSE Resized(adjustContentLength(P.nodes, node, -Len(op.data)))

\* attribute( op, invert ); the attribute map has the one key "level"
attribute(P, op, invert) ==
    IF P.cursor >= Len(P.data) THEN Throw(P, TypeError)
    ELSE IF ~IsElement(P.data[P.cursor + 1])
    THEN Throw(P, "Invalid element error")
    ELSE LET isSet == (op.method = "set" /\ ~invert)
                          \/ (op.method = "clear" /\ invert)
             isClear == (op.method = "clear" /\ ~invert)
                          \/ (op.method = "set" /\ invert)
             P1 == [P EXCEPT !.data[P.cursor + 1].at =
                        IF isSet THEN op.value ELSE 0]
             node == getNodeFromOffset(P.nodes, Root, P.cursor + 1, FALSE)
         IN  IF ~isSet /\ ~isClear THEN Throw(P, "Invalid method error")
             \* node.traverseLeafNodes is defined for branch nodes only
             ELSE IF node = 0 \/ P.nodes[node].leaf THEN Throw(P1, TypeError)
             \* every leaf below the element emits 'update'
             ELSE IF Len(P.nodes[node].children) > 0 THEN Emit(P1)
             ELSE P1

\* mark that takes no notice of invert
markAsCommitted(P, op, invert) ==
    LET target == IF op.method = "set" THEN P.set ELSE P.clear
        index == getIndexOfAnnotation(target, op.annotation)
        target2 == IF op.bias = "start" THEN Append(target, op.annotation)
                   ELSE IF op.bias = "stop"
                   THEN JsSplice(target, index, 1, <<>>)
                   ELSE target
    IN  IF op.method \notin {"set", "clear"}
        THEN Throw(P, "Invalid method error")
        ELSE IF op.bias = "stop" /\ index = -1
        THEN Throw(P, "Annotation stack error")
        ELSE IF op.method = "set" THEN [P EXCEPT !.set = target2]
        ELSE [P EXCEPT !.clear = target2]

\* mark( op, invert )
mark(P, op, invert) ==
    LET toSet == (op.method = "set" /\ ~invert)
                     \/ (op.method = "clear" /\ invert)
        toClear == (op.method = "clear" /\ ~invert)
                     \/ (op.method = "set" /\ invert)
        target == IF toSet THEN P.set ELSE P.clear
        index == getIndexOfAnnotation(target, op.annotation)
        target2 == IF op.bias = "start" THEN Append(target, op.annotation)
                   ELSE IF op.bias = "stop"
                   THEN JsSplice(target, index, 1, <<>>)
                   ELSE target
    IN  IF ~toSet /\ ~toClear THEN Throw(P, "Invalid method error")
        ELSE IF op.bias = "stop" /\ index = -1
        THEN Throw(P, "Annotation stack error")
        ELSE IF toSet THEN [P EXCEPT !.set = target2]
        ELSE [P EXCEPT !.clear = target2]

\* es.TransactionProcessor.operationMap
operationMap(P, op, method) ==
    IF op.type = "retain" THEN retain(P, op)
    ELSE IF op.type \in {"insert", "remove"}
    \* insert: commit inserts, rollback removes; remove: the other way round
    THEN IF (op.type = "insert") = (method = "commit")
         THEN insert(P, op)
         ELSE remove(P, op)
    ELSE IF op.type = "attribute"
    THEN attribute(P, op, method = "rollback")
    ELSE IF op.type = "annotate"
    THEN mark(P, op, method = "rollback")
    ELSE Throw(P, "Invalid operation error")

\* A process loop that notes the exception and goes on with the next
\* operation
RECURSIVE ProcessFromGoingOn(_, _, _, _)
ProcessFromGoingOn(P, operations, i, method) ==
    IF i > Len(operations) THEN P
    ELSE LET Noted(Q) == IF P.err # NoError THEN [Q EXCEPT !.err = P.err]
                         ELSE Q
         IN  ProcessFromGoingOn(
                 Noted(operationMap([P EXCEPT !.err = NoError],
                                    operations[i], method)),
                 operations, i + 1, method)

RECURSIVE ProcessFrom(_, _, _, _)
ProcessFrom(P, operations, i, method) ==
    IF i > Len(operations) \/ P.err # NoError THEN P
    ELSE ProcessFrom(operationMap(P, operations[i], method), operations,
                     i + 1, method)

\* es.TransactionProcessor.prototype.process: the document afterwards
process(doc, transaction, method) ==
    LET Processed(P) == [data |-> P.data, nodes |-> P.nodes, err |-> P.err]
    IN  Processed(ProcessFrom(TransactionProcessor(doc),
                              transaction.operations, 1, method))

\* es.DocumentModel.prototype.commit / rollback
commit(doc, transaction) == process(doc, transaction, "commit")

\* rollback that applies the operations forward again
rollbackForward(doc, transaction) == process(doc, transaction, "commit")

rollback(doc, transaction) == process(doc, transaction, "rollback")

(***************************************************************************)
(* The transaction builders of es.DocumentModel.  A builder returns the    *)
(* transaction and the error thrown, if any.                               *)
(***************************************************************************)
Prepared(tx) == [tx |-> tx, err |-> NoError]

PrepareError(e) == [tx |-> TransactionModel, err |-> e]

\* balance( data ) inside prepareInsertion.  workingData stays null (copied
\* = FALSE) until the first change; an orphan closing found at index i of
\* data is removed with workingData.splice( i, 1 )
RECURSIVE BalanceScan(_, _, _, _, _)
BalanceScan(data, i, stack, copied, workingData) ==
    IF i > Len(data)
    THEN LET closings == [j \in 1..Len(stack) |->
                             Close(stack[Len(stack) + 1 - j])]
         IN  [data |-> workingData \o closings, err |-> NoError]
    ELSE IF ~IsElement(data[i])
    THEN BalanceScan(data, i + 1, stack, copied, workingData)
    ELSE IF IsOpening(data[i])
    THEN BalanceScan(data, i + 1, Append(stack, data[i].t), copied,
                     workingData)
    ELSE IF Len(stack) = 0
    THEN BalanceScan(data, i + 1, stack, TRUE,
                     JsSplice(workingData, i - 1, 1, <<>>))
    ELSE IF stack[Len(stack)] # data[i].t
    THEN [data |-> workingData, err |-> "Input is malformed"]
    ELSE BalanceScan(data, i + 1, SubSeq(stack, 1, Len(stack) - 1), copied,
                     workingData)

balance(data) == BalanceScan(data, 1, <<>>, FALSE, data)

prepareInsertion(doc, offset, data) ==
    IF offset < 0 \/ offset > Len(doc.data)
    THEN PrepareError("Offset out of bounds")
    ELSE
    LET isStructuralLoc == isStructuralOffset(doc.data, offset)
        tx1 == IF offset > 0 THEN pushRetain(TransactionModel, offset)
               ELSE TransactionModel
        structure == containsElementData(data) /\ IsOpening(data[1])
        balanced == IF structure THEN balance(data)
                    ELSE [data |-> data, err |-> NoError]
        wrappingNode == getNodeFromOffset(doc.nodes, Root, offset, FALSE)
        wrappingElementType == doc.nodes[wrappingNode].type
        insertedData ==
            IF containsElementData(data)
            THEN IF structure /\ ~isStructuralLoc
                 THEN insertIntoArray(<<Close(wrappingElementType),
                                        Open(wrappingElementType, 0)>>,
                                      1, balanced.data)
                 ELSE balanced.data
            ELSE IF isStructuralLoc
            THEN insertIntoArray(<<Open("paragraph", 0), Close("paragraph")>>,
                                 1, data)
            ELSE data
        tx2 == pushInsert(tx1, insertedData)
    IN  IF balanced.err # NoError THEN PrepareError(balanced.err)
        ELSE IF structure /\ ~isStructuralLoc /\ wrappingNode = 0
        THEN PrepareError(TypeError)
        ELSE IF offset < Len(doc.data)
        THEN Prepared(pushRetain(tx2, Len(doc.data) - offset))
        ELSE Prepared(tx2)

\* canMerge that merges nothing but a node with itself
canMergeSameNode(nodes, node1, node2) == node1 = node2

\* canMerge( node1, node2 ) inside prepareRemoval
canMerge(nodes, node1, node2) ==
    LET result == getCommonAncestorPaths(nodes, node1, node2)
    IN  /\ result.found
        /\ \A i \in 1..Len(result.node1Path) :
               nodes[result.node1Path[i]].type = nodes[result.node2Path[i]].type

RECURSIVE RemovePerNode(_, _, _, _, _)
RemovePerNode(doc, selectedNodes, i, index, tx) ==
    IF i > Len(selectedNodes)
    THEN IF index < Len(doc.data)
         THEN pushRetain(tx, Len(doc.data) - index)
         ELSE tx
    ELSE LET g == selectedNodes[i].globalRange
             tx1 == IF g.start > index THEN pushRetain(tx, g.start - index)
                    ELSE tx
             tx2 == IF g.end - g.start # 0
                    THEN pushRemove(tx1, JsSlice(doc.data, g.start, g.end))
                    ELSE tx1
         IN  RemovePerNode(doc, selectedNodes, i + 1, g.end, tx2)

prepareRemoval(doc, range) ==
    IF range.start = range.end
    THEN Prepared(pushRetain(TransactionModel, Len(doc.data)))
    ELSE
    LET sel == selectNodes(doc.nodes, Root, range.start, range.end, FALSE, 0)
        selectedNodes == sel.list
        startNode == selectedNodes[1].node
        endNode == selectedNodes[Len(selectedNodes)].node
        tx1 == IF range.start > 0 THEN pushRetain(TransactionModel, range.start)
               ELSE TransactionModel
        tx2 == pushRemove(tx1, JsSlice(doc.data, range.start, range.end))
        tx3 == IF range.end < Len(doc.data)
               THEN pushRetain(tx2, Len(doc.data) - range.end)
               ELSE tx2
    IN  IF sel.err # NoError THEN PrepareError(sel.err)
        ELSE IF Len(selectedNodes) = 0 THEN PrepareError(TypeError)
        ELSE IF canMerge(doc.nodes, startNode, endNode) THEN Prepared(tx3)
        ELSE Prepared(RemovePerNode(doc, selectedNodes, 1, 0,
                                    TransactionModel))

\* es.DocumentBranchNode.traverseLeafNodes going forwards from `from`, with
\* the callback of prepareLeafConversion: it collects the leaves and returns
\* false at endNode.  Indices are those of the children sequences (from 1);
\* 0 is the undefined index that pop() gives on an empty stack.
traverseLeafNodes(nodes, this, endNode, from) ==
    LET Walked(list, e) == [list |-> list, err |-> e]
        RECURSIVE IndexStack(_, _)
        IndexStack(n, indexStack) ==
            IF n = this THEN Walked(indexStack, NoError)
            ELSE IF n = 0 THEN Walked(<<>>, TypeError)
            ELSE IF nodes[n].parent = 0
            THEN Walked(<<>>, "from parameter passed to traverseLeafNodes() must be a descendant")
            ELSE IF indexOf(nodes, nodes[n].parent, n) = -1
            THEN Walked(<<>>, "Tree corruption detected")
            ELSE IndexStack(nodes[n].parent,
                            <<indexOf(nodes, nodes[n].parent, n) + 1>>
                                \o indexStack)
        RECURSIVE Visit(_, _, _, _)
        Visit(node, index, indexStack, visited) ==
            IF node = 0 THEN Walked(visited, TypeError)
            ELSE IF index < 1 \/ index > Len(nodes[node].children)
            THEN IF Len(indexStack) > 0
                 THEN Visit(nodes[node].parent,
                            indexStack[Len(indexStack)] + 1,
                            SubSeq(indexStack, 1, Len(indexStack) - 1),
                            visited)
                 ELSE Walked(visited, NoError)
            ELSE IF hasChildren(nodes, nodes[node].children[index])
            THEN Visit(nodes[node].children[index], 1,
                       Append(indexStack, index), visited)
            ELSE IF nodes[node].children[index] = endNode
            THEN Walked(Append(visited, endNode), NoError)
            ELSE Visit(node, index + 1, indexStack,
                       Append(visited, nodes[node].children[index]))
        Started(st) ==
            IF st.err # NoError THEN st
            ELSE IF Len(st.list) = 0 THEN Visit(nodes[from].parent, 0, <<>>, <<>>)
            ELSE Visit(nodes[from].parent, st.list[Len(st.list)],
                       SubSeq(st.list, 1, Len(st.list) - 1), <<>>)
    IN  Started(IndexStack(from, <<>>))

\* getContentData() of a node of the document, without a range
getContentDataFromNode(doc, node) ==
    LET offset == getOffsetFromNode(doc.nodes, Root, node, FALSE)
    IN  JsSlice(doc.data, offset + 1, offset + 1 + doc.nodes[node].len)

\* The transactions are all prepared on the document as it is: txs is the
\* list of a removal and an insertion for each traversed leaf
prepareLeafConversion(doc, range, type, attributes) ==
    LET startNode == getNodeFromOffset(doc.nodes, Root, range.start, FALSE)
        endNode == getNodeFromOffset(doc.nodes, Root, range.end, FALSE)
        traversed == traverseLeafNodes(doc.nodes, Root, endNode, startNode)
        Converted(txs, e) == [txs |-> txs, err |-> e]
        RECURSIVE Convert(_, _)
        Convert(i, txs) ==
            IF i > Len(traversed.list) THEN Converted(txs, NoError)
            ELSE LET nodeOffset == getOffsetFromNode(doc.nodes, Root,
                                                     traversed.list[i], FALSE)
                     removal ==
                         prepareRemoval(doc,
                             Range(nodeOffset,
                                   nodeOffset + getElementLength(doc.nodes,
                                                    traversed.list[i])))
                     insertion ==
                         prepareInsertion(doc, nodeOffset,
                             <<Open(type, attributes)>>
                                 \o getContentDataFromNode(doc, traversed.list[i])
                                 \o <<Close(type)>>)
                 IN  IF removal.err # NoError THEN Converted(txs, removal.err)
                     ELSE IF insertion.err # NoError
                     THEN Converted(txs, insertion.err)
                     ELSE Convert(i + 1, txs \o <<removal.tx, insertion.tx>>)
    IN  IF traversed.err # NoError THEN Converted(<<>>, traversed.err)
        ELSE Convert(1, <<>>)

\* The first loop of getAnnotationsFromRange: map lists, in the order in
\* which their hashes were first met, the annotations of the content in the
\* range with the number of times each was met; elementsCount is the
\* number of element markers in the range
AnnotationMap(data, range) ==
    LET Counted(map, elementsCount) ==
            [map |-> map, elementsCount |-> elementsCount]
        RECURSIVE Met(_, _, _)
        Met(map, annotations, j) ==
            IF j > Len(annotations) THEN map
            ELSE IF \E k \in 1..Len(map) : map[k].annotation = annotations[j]
            THEN Met([k \in 1..Len(map) |->
                         IF map[k].annotation = annotations[j]
                         THEN [map[k] EXCEPT !.count = @ + 1]
                         ELSE map[k]],
                     annotations, j + 1)
            ELSE Met(Append(map, [annotation |-> annotations[j], count |-> 1]),
                     annotations, j + 1)
        RECURSIVE Scan(_, _, _)
        Scan(i, map, elementsCount) ==
            IF i >= range.end THEN Counted(map, elementsCount)
            ELSE IF IsElement(data[i + 1]) THEN Scan(i + 1, map, elementsCount + 1)
            ELSE Scan(i + 1, Met(map, data[i + 1].an, 1), elementsCount)
    IN  Scan(range.start, <<>>, 0)

\* getAnnotationsFromRange that takes the markers in the range for content
getAnnotationsFromRangeOfLength(doc, range) ==
    LET counted == AnnotationMap(doc.data, range)
        length == range.end - range.start
        Of(keep(_)) ==
            LET RECURSIVE Pick(_)
                Pick(k) ==
                    IF k > Len(counted.map) THEN <<>>
                    ELSE IF keep(counted.map[k])
                    THEN <<counted.map[k].annotation>> \o Pick(k + 1)
                    ELSE Pick(k + 1)
            IN  Pick(1)
        IsFull(entry) == entry.count = length
        IsPartial(entry) == entry.count # length
        IsAny(entry) == TRUE
    IN  [full |-> Of(IsFull), partial |-> Of(IsPartial), all |-> Of(IsAny)]

\* es.DocumentModel.prototype.getAnnotationsFromRange for a range inside the
\* data: an annotation met on every item that is not a marker is full
getAnnotationsFromRange(doc, range) ==
    LET counted == AnnotationMap(doc.data, range)
        length == range.end - range.start
        Of(keep(_)) ==
            LET RECURSIVE Pick(_)
                Pick(k) ==
                    IF k > Len(counted.map) THEN <<>>
                    ELSE IF keep(counted.map[k])
                    THEN <<counted.map[k].annotation>> \o Pick(k + 1)
                    ELSE Pick(k + 1)
            IN  Pick(1)
        IsFull(entry) == entry.count = length - counted.elementsCount
        IsPartial(entry) == entry.count # length - counted.elementsCount
        IsAny(entry) == TRUE
    IN  [full |-> Of(IsFull), partial |-> Of(IsPartial), all |-> Of(IsAny)]

\* The loop of prepareContentAnnotation; the state is (i, span, on, tx)
RECURSIVE AnnotateScan(_, _, _, _, _, _, _, _)
AnnotateScan(data, end, method, annotation, i, span, on, tx) ==
    IF i >= end
    THEN LET tx1 == IF span # 0 THEN pushRetain(tx, span) ELSE tx
         IN  IF on THEN pushStopAnnotating(tx1, method, annotation) ELSE tx1
    ELSE LET item == data[i + 1]
             covered == getIndexOfAnnotation(item.an, annotation) # -1
             skip == IsElement(item)
                        \/ (covered /\ method = "set")
                        \/ (~covered /\ method = "clear")
             flushed == IF span # 0 THEN pushRetain(tx, span) ELSE tx
         IN  IF skip /\ on
             THEN AnnotateScan(data, end, method, annotation, i + 1, 1, FALSE,
                      pushStopAnnotating(flushed, method, annotation))
             ELSE IF ~skip /\ ~on
             THEN AnnotateScan(data, end, method, annotation, i + 1, 1, TRUE,
                      pushStartAnnotating(flushed, method, annotation))
             ELSE AnnotateScan(data, end, method, annotation, i + 1, span + 1,
                               on, tx)

prepareContentAnnotation(doc, range, method, annotation) ==
    IF range.end > Len(doc.data) THEN PrepareError(TypeError)
    ELSE LET tx == AnnotateScan(doc.data, range.end, method, annotation,
                                range.start, range.start, FALSE,
                                TransactionModel)
         IN  IF range.end < Len(doc.data)
             THEN Prepared(pushRetain(tx, Len(doc.data) - range.end))
             ELSE Prepared(tx)

prepareElementAttributeChange(doc, offset, method, key, value) ==
    LET tx1 == IF offset # 0 THEN pushRetain(TransactionModel, offset)
               ELSE TransactionModel
        tx2 == pushChangeElementAttribute(tx1, method, key, value)
    IN  IF offset < 0 \/ offset >= Len(doc.data) THEN PrepareError(TypeError)
        ELSE IF ~IsElement(doc.data[offset + 1])
        THEN PrepareError("Invalid element offset error: non-element data")
        ELSE IF IsClosing(doc.data[offset + 1])
        THEN PrepareError("Invalid element offset error: closing element")
        ELSE Prepared(pushRetain(tx2, Len(doc.data) - offset))

(***************************************************************************)
(* es.SurfaceModel.  A surface state S holds the document (data, nodes),   *)
(* the selection, the two history stacks, undoIndex, and the error thrown  *)
(* by the operation that produced it.  A selection is an es.Range with its *)
(* direction (from, to); isNull is the null selection.                     *)
(***************************************************************************)
NullSelection == [isNull |-> TRUE, from |-> 0, to |-> 0]

Selection(from, to) == [isNull |-> FALSE, from |-> from, to |-> to]

SurfaceModel(doc) ==
    [data |-> doc.data, nodes |-> doc.nodes, selection |-> NullSelection,
     smallStack |-> <<>>, bigStack |-> <<>>, undoIndex |-> 0,
     thrown |-> NoError, emitted |-> <<>>]

DocOf(S) == [data |-> S.data, nodes |-> S.nodes, err |-> NoError]

WithDoc(S, doc) ==
    [S EXCEPT !.data = doc.data, !.nodes = doc.nodes, !.thrown = doc.err]

purgeHistory(S) ==
    [S EXCEPT !.selection = NullSelection, !.smallStack = <<>>,
              !.bigStack = <<>>, !.undoIndex = 0]

\* A breakpoint() that hands its selection over to the new entry instead of
\* copying it, leaving the surface without a selection
breakpointMovingSelection(S) ==
    IF Len(S.smallStack) > 0
    THEN IF S.selection.isNull THEN [S EXCEPT !.thrown = TypeError]
         ELSE [S EXCEPT !.bigStack = Append(@, [stack |-> S.smallStack,
                                                selection |-> S.selection]),
                        !.smallStack = <<>>,
                        !.selection = NullSelection]
    ELSE S

\* breakpoint(): this.selection.clone() on a null selection is a TypeError
breakpoint(S) ==
    IF Len(S.smallStack) > 0
    THEN IF S.selection.isNull THEN [S EXCEPT !.thrown = TypeError]
         ELSE [S EXCEPT !.bigStack = Append(@, [stack |-> S.smallStack,
                                                selection |-> S.selection]),
                        !.smallStack = <<>>]
    ELSE S

select(S, selection, isManual) ==
    LET S1 == IF isManual THEN breakpoint(S) ELSE S
    IN  IF S1.thrown # NoError THEN S1
        ELSE [S1 EXCEPT !.selection = selection,
                        !.emitted = Append(@, "select")]

\* A transact() that leaves undoIndex as it was
transactKeepingUndoIndex(S, transaction) ==
    LET S1 == [S EXCEPT !.bigStack =
                            JsSlice(@, 0, Len(S.bigStack) - S.undoIndex),
                        !.smallStack = Append(@, transaction)]
        Committed(S2) ==
            IF S2.thrown # NoError THEN S2
            ELSE [S2 EXCEPT !.emitted = Append(@, "transact")]
    IN  Committed(WithDoc(S1, commit(DocOf(S1), transaction)))

\* transact(): the 'transact' event follows the commit, which may throw
transact(S, transaction) ==
    LET S1 == [S EXCEPT !.bigStack =
                            JsSlice(@, 0, Len(S.bigStack) - S.undoIndex),
                        !.undoIndex = 0,
                        !.smallStack = Append(@, transaction)]
        Committed(S2) ==
            IF S2.thrown # NoError THEN S2
            ELSE [S2 EXCEPT !.emitted = Append(@, "transact")]
    IN  Committed(WithDoc(S1, commit(DocOf(S1), transaction)))

\* The loop of undo: roll back item.stack[i] for i = length - 1 down to 0
RECURSIVE RollbackLoop(_, _, _, _)
RollbackLoop(doc, stack, i, diff) ==
    IF i < 1 THEN [doc |-> doc, diff |-> diff]
    ELSE LET RolledBack(d) ==
                 IF d.err # NoError THEN [doc |-> d, diff |-> diff]
                 ELSE RollbackLoop(d, stack, i - 1,
                                   diff + stack[i].lengthDifference)
         IN  RolledBack(rollback(doc, stack[i]))

\* The loop of redo: commit item.stack[i] for i = 0 up to length - 1
RECURSIVE CommitLoop(_, _, _, _)
CommitLoop(doc, stack, i, diff) ==
    IF i > Len(stack) THEN [doc |-> doc, diff |-> diff]
    ELSE LET Committed(d) ==
                 IF d.err # NoError THEN [doc |-> d, diff |-> diff]
                 ELSE CommitLoop(d, stack, i + 1,
                                 diff + stack[i].lengthDifference)
         IN  Committed(commit(doc, stack[i]))

\* bigStack[ bigStack.length - undoIndex ] is defined
HasItem(S) ==
    /\ Len(S.bigStack) - S.undoIndex >= 0
    /\ Len(S.bigStack) - S.undoIndex < Len(S.bigStack)

undo(S) ==
    LET RolledBack(S2, k, item, r) ==
            LET selection == Selection(item.selection.from - r.diff,
                                       item.selection.to - r.diff)
            IN  IF r.doc.err # NoError THEN WithDoc(S2, r.doc)
                ELSE select([WithDoc(S2, r.doc) EXCEPT
                                 !.bigStack[k].selection = selection],
                            selection, FALSE)
        AfterBreakpoint(S1) ==
            LET S2 == [S1 EXCEPT !.undoIndex = @ + 1]
                k == Len(S2.bigStack) - S2.undoIndex + 1
                item == S2.bigStack[k]
            IN  IF S1.thrown # NoError THEN S1
                ELSE IF ~HasItem(S2) THEN S2
                ELSE RolledBack(S2, k, item,
                                RollbackLoop(DocOf(S2), item.stack,
                                             Len(item.stack), 0))
    IN  AfterBreakpoint(breakpoint(S))

redo(S) ==
    LET Committed(S1, k, item, r) ==
            LET selection == Selection(item.selection.from + r.diff,
                                       item.selection.to + r.diff)
            IN  IF r.doc.err # NoError THEN WithDoc(S1, r.doc)
                ELSE [select([WithDoc(S1, r.doc) EXCEPT
                                  !.bigStack[k].selection = selection,
                                  !.selection = NullSelection],
                             selection, FALSE)
                         EXCEPT !.undoIndex = @ - 1]
        AfterBreakpoint(S1) ==
            LET k == Len(S1.bigStack) - S1.undoIndex + 1
                item == S1.bigStack[k]
            IN  IF S1.thrown # NoError THEN S1
                ELSE IF S1.undoIndex <= 0 THEN S1
                ELSE IF ~HasItem(S1) THEN [S1 EXCEPT !.undoIndex = @ - 1]
                ELSE Committed(S1, k, item,
                               CommitLoop(DocOf(S1), item.stack, 1, 0))
    IN  AfterBreakpoint(breakpoint(S))

(***************************************************************************)
(* Nodes that no reference can reach any more are reclaimed: the arena is  *)
(* restricted to the nodes reachable from the document node through        *)
(* children, parent and root references, keeping their relative order.     *)
(***************************************************************************)
RECURSIVE Reachable(_, _)
Reachable(nodes, ids) ==
    LET next == ids \cup
                    UNION {{nodes[i].parent, nodes[i].root} \cup
                           {nodes[i].children[j] :
                                j \in 1..Len(nodes[i].children)} : i \in ids}
        live == next \cap (1..Len(nodes))
    IN  IF live = ids THEN ids ELSE Reachable(nodes, live)

Reclaim(nodes) ==
    LET live == Reachable(nodes, {Root})
        rank(id) == IF id \in live
                    THEN Cardinality({j \in live : j <= id}) ELSE 0
        old(r) == CHOOSE id \in live : rank(id) = r
    IN  [r \in 1..Cardinality(live) |->
            [nodes[old(r)] EXCEPT
                !.parent = rank(@), !.root = rank(@),
                !.children = [j \in 1..Len(@) |-> rank(@[j])]]]

(***************************************************************************)
(* The state machine.  data and nodes are the document model, selection,   *)
(* smallStack, bigStack and undoIndex the surface model; thrown is the     *)
(* exception of the last operation.  The others are history variables:     *)
(* lastOp the last operation, its arguments and the events the surface    *)
(* emitted during it, txCount the number of transactions committed so far, *)
(* failures the number of operations that have thrown,                     *)
(* hist the linear array before the transactions of each breakpoint, base  *)
(* the array before the first transaction of smallStack, run and tip the   *)
(* current run of undo()s followed by redo()s and the array and selection  *)
(* before its first undo(), origin the array the surface was constructed   *)
(* on, or none once purgeHistory() has run, journal the transactions       *)
(* committed directly on the document with the document state before each, *)
(* plain the plain object the document was made from or the one last read  *)
(* from it.                                                                *)
(***************************************************************************)
VARIABLES data, nodes, selection, smallStack, bigStack, undoIndex, thrown,
          lastOp, txCount, failures, hist, base, run, tip, origin, journal,
          plain

vars == <<data, nodes, selection, smallStack, bigStack, undoIndex, thrown,
          lastOp, txCount, failures, hist, base, run, tip, origin, journal,
          plain>>

surfaceVars == <<selection, smallStack, bigStack, undoIndex>>

ghostVars == <<hist, base, run, tip, origin>>

\* Bounds
MaxTransactions == 3

MaxUndoIndex == 3

MaxDocTransactions == 2

MaxFailures == 1

Bold == [type |-> "bold", data |-> 0]

Italic == [type |-> "italic", data |-> 0]

X == Char("X", <<>>)

DocP ==
    <<Open("paragraph", 0), Char("a", <<Bold>>), Char("b", <<>>),
      Close("paragraph")>>

DocPP ==
    <<Open("paragraph", 0), Char("a", <<>>), Close("paragraph"),
      Open("paragraph", 0), Char("b", <<>>), Char("c", <<>>),
      Close("paragraph")>>

DocL ==
    <<Open("list", 1), Open("listItem", 0), Open("paragraph", 0),
      Char("a", <<>>), Close("paragraph"), Close("listItem"),
      Close("list")>>

InitialData == {DocP, DocPP, DocL}

SurfaceData == {DocPP, DocL}

Surface ==
    [data |-> data, nodes |-> nodes, selection |-> selection,
     smallStack |-> smallStack, bigStack |-> bigStack,
     undoIndex |-> undoIndex, thrown |-> NoError, emitted |-> <<>>]

Document == [data |-> data, nodes |-> nodes, err |-> NoError]

Op(name) ==
    [name |-> name, tx |-> TransactionModel, flushed |-> FALSE,
     emitted |-> <<>>]

NoRun == [undos |-> 0, redos |-> 0]

NoTip == [data |-> <<>>, selection |-> NullSelection]

NoPlain == <<>>

NoOrigin == <<>>

InitCommon(doc) ==
    /\ data = doc.data
    /\ nodes = Reclaim(doc.nodes)
    /\ selection = NullSelection
    /\ smallStack = <<>>
    /\ bigStack = <<>>
    /\ undoIndex = 0
    /\ thrown = NoError
    /\ lastOp = Op("new")
    /\ txCount = 0
    /\ failures = 0
    /\ hist = <<>>
    /\ base = <<>>
    /\ run = NoRun
    /\ tip = NoTip
    /\ origin = doc.data
    /\ journal = <<>>

Init == \E d \in SurfaceData : InitCommon(DocumentModel(d)) /\ plain = NoPlain

failed == failures > 0

\* The surface after an operation
Becomes(S, op) ==
    /\ failures < MaxFailures
    /\ data' = S.data
    /\ nodes' = Reclaim(S.nodes)
    /\ selection' = S.selection
    /\ smallStack' = S.smallStack
    /\ bigStack' = S.bigStack
    /\ undoIndex' = S.undoIndex
    /\ thrown' = S.thrown
    /\ failures' = IF S.thrown # NoError THEN failures + 1 ELSE failures
    /\ lastOp' = [op EXCEPT !.emitted = S.emitted]
    /\ UNCHANGED <<journal, plain>>

\* Whether breakpoint() in the current state moves smallStack to bigStack,
\* and hist after it has run
Flushes == Len(breakpoint(Surface).bigStack) > Len(bigStack)

Flushed == IF Flushes THEN Append(hist, base) ELSE hist

Flushing(name) == [Op(name) EXCEPT !.flushed = Flushes]

\* Inputs of the surface operations: the selections and the prepared
\* transactions a caller can pass in the current state
Selections ==
    {Selection(3, t) : t \in {o \in {1} : Len(data) >= 3}}

PreparedOf(results) == {r.tx : r \in {q \in results : q.err = NoError}}

SurfaceTransactions ==
    PreparedOf({prepareInsertion(Document, 1, <<X>>),
                prepareRemoval(Document, Range(0, 2)),
                prepareElementAttributeChange(Document, 0, "set", "level", 2)})

Select(sel, isManual) ==
    /\ Becomes(select(Surface, sel, isManual),
               IF isManual THEN Flushing("select") ELSE Op("select"))
    /\ hist' = IF isManual THEN Flushed ELSE hist
    /\ run' = NoRun
    /\ tip' = NoTip
    /\ UNCHANGED <<base, origin, txCount>>

Transact(tx) ==
    /\ txCount < MaxTransactions
    /\ Becomes(transact(Surface, tx), [Op("transact") EXCEPT !.tx = tx])
    /\ txCount' = txCount + 1
    /\ hist' = JsSlice(hist, 0, Len(bigStack) - undoIndex)
    /\ base' = IF Len(smallStack) = 0 THEN data ELSE base
    /\ run' = NoRun
    /\ tip' = NoTip
    /\ UNCHANGED origin

Breakpoint ==
    /\ Becomes(breakpoint(Surface), Flushing("breakpoint"))
    /\ hist' = Flushed
    /\ UNCHANGED <<base, run, tip, origin, txCount>>

\* The setInterval callback of the constructor
TimerBreakpoint ==
    /\ Becomes(breakpoint(Surface), Flushing("timer"))
    /\ hist' = Flushed
    /\ UNCHANGED <<base, run, tip, origin, txCount>>

Undo ==
    /\ undoIndex < MaxUndoIndex
    /\ Becomes(undo(Surface), Flushing("undo"))
    /\ hist' = Flushed
    /\ run' = IF undoIndex = 0 THEN [undos |-> 1, redos |-> 0]
              ELSE IF run.undos > 0 /\ run.redos = 0
              THEN [run EXCEPT !.undos = @ + 1]
              ELSE NoRun
    /\ tip' = IF undoIndex = 0
              THEN [data |-> data, selection |-> selection]
              ELSE IF run.undos > 0 /\ run.redos = 0 THEN tip
              ELSE NoTip
    /\ UNCHANGED <<base, origin, txCount>>

Redo ==
    /\ Becomes(redo(Surface), Flushing("redo"))
    /\ hist' = Flushed
    /\ run' = IF run.undos > 0 /\ run.redos < run.undos
              THEN [run EXCEPT !.redos = @ + 1]
              ELSE NoRun
    /\ tip' = IF run.undos > 0 /\ run.redos < run.undos THEN tip ELSE NoTip
    /\ UNCHANGED <<base, origin, txCount>>

PurgeHistory ==
    /\ Becomes(purgeHistory(Surface), Op("purgeHistory"))
    /\ hist' = <<>>
    /\ run' = NoRun
    /\ tip' = NoTip
    /\ origin' = NoOrigin
    /\ UNCHANGED <<base, txCount>>

Next ==
    \/ \E sel \in Selections, isManual \in BOOLEAN : Select(sel, isManual)
    \/ \E tx \in SurfaceTransactions : Transact(tx)
    \/ Breakpoint
    \/ TimerBreakpoint
    \/ Undo
    \/ Redo
    \/ PurgeHistory

Spec == Init /\ [][Next]_vars

(***************************************************************************)
(* The document model on its own: transactions prepared against the        *)
(* current document are committed with DocumentModel.commit and rolled     *)
(* back, last committed first, with DocumentModel.rollback.                *)
(***************************************************************************)
Offsets == 0..Len(data)

Paragraph == <<Open("paragraph", 0), X, Close("paragraph")>>

DocTransactions ==
    PreparedOf(
        {prepareInsertion(Document, o, d) :
             o \in Offsets, d \in {<<X>>, <<X, X>>, Paragraph}}
        \cup {prepareRemoval(Document, Range(r[1], r[2])) :
                  r \in {q \in Offsets \X Offsets : q[1] < q[2]}}
        \cup {prepareContentAnnotation(Document, r, m, a) :
                  r \in {Range(1, 2), Range(0, Len(data))},
                  m \in {"set", "clear"}, a \in {Bold, Italic}}
        \cup {prepareElementAttributeChange(Document, o, m, "level", 2) :
                  o \in Offsets, m \in {"set", "clear"}})

DocBecomes(doc, op) ==
    /\ failures < MaxFailures
    /\ data' = doc.data
    /\ nodes' = Reclaim(doc.nodes)
    /\ thrown' = doc.err
    /\ failures' = IF doc.err # NoError THEN failures + 1 ELSE failures
    /\ lastOp' = op
    /\ UNCHANGED <<surfaceVars, ghostVars, plain>>

DocCommit(tx) ==
    /\ txCount < MaxDocTransactions
    /\ DocBecomes(commit(Document, tx), [Op("commit") EXCEPT !.tx = tx])
    /\ txCount' = txCount + 1
    /\ journal' = Append(journal, [tx |-> tx, data |-> data, nodes |-> nodes])

DocRollback ==
    /\ Len(journal) > 0
    /\ DocBecomes(rollback(Document, journal[Len(journal)].tx),
                  [Op("rollback") EXCEPT !.tx = journal[Len(journal)].tx])
    /\ journal' = SubSeq(journal, 1, Len(journal) - 1)
    /\ UNCHANGED txCount

InitDoc ==
    \E d \in InitialData : InitCommon(DocumentModel(d)) /\ plain = NoPlain

NextDoc ==
    \/ \E tx \in DocTransactions : DocCommit(tx)
    \/ DocRollback

SpecDoc == InitDoc /\ [][NextDoc]_vars

(***************************************************************************)
(* The processor on transactions of any shape: a transaction is built from *)
(* up to MaxOperations operations and committed to, or rolled back from,   *)
(* the document, whether it fits the document or not.                      *)
(***************************************************************************)
MaxOperations == 3

MaxProcessed == 1

OperationInputs ==
    {[Operation("retain") EXCEPT !.length = 1],
     [Operation("insert") EXCEPT !.data = <<X>>],
     [Operation("remove") EXCEPT !.data = <<X>>],
     [Operation("attribute") EXCEPT !.method = "set", !.key = "level",
                                    !.value = 2],
     [Operation("annotate") EXCEPT !.method = "set", !.bias = "start",
                                   !.annotation = Bold],
     [Operation("annotate") EXCEPT !.method = "set", !.bias = "stop",
                                   !.annotation = Bold],
     [Operation("annotate") EXCEPT !.method = "set", !.bias = "stop",
                                   !.annotation = Italic],
     Operation("format")}

\* The builder methods of es.TransactionModel, one call per operation; an
\* operation of another type comes in through the constructor's array
RECURSIVE PushOperations(_, _, _)
PushOperations(tx, ops, i) ==
    IF i > Len(ops) THEN tx
    ELSE PushOperations(
             IF ops[i].type = "retain" THEN pushRetain(tx, ops[i].length)
             ELSE IF ops[i].type = "insert" THEN pushInsert(tx, ops[i].data)
             ELSE IF ops[i].type = "remove" THEN pushRemove(tx, ops[i].data)
             ELSE IF ops[i].type = "attribute"
             THEN pushChangeElementAttribute(tx, ops[i].method, ops[i].key,
                                             ops[i].value)
             ELSE IF ops[i].type = "annotate" /\ ops[i].bias = "start"
             THEN pushStartAnnotating(tx, ops[i].method, ops[i].annotation)
             ELSE IF ops[i].type = "annotate"
             THEN pushStopAnnotating(tx, ops[i].method, ops[i].annotation)
             ELSE [tx EXCEPT !.operations = Append(@, ops[i])],
             ops, i + 1)

BuiltTransactions ==
    {PushOperations(TransactionModel, ops, 1) :
         ops \in UNION {[1..n -> OperationInputs] : n \in 1..MaxOperations}}

Process(tx, method) ==
    /\ txCount < MaxProcessed
    /\ DocBecomes(process(Document, tx, method), [Op(method) EXCEPT !.tx = tx])
    /\ txCount' = txCount + 1
    /\ UNCHANGED journal

NextProcess ==
    \E tx \in BuiltTransactions, method \in {"commit", "rollback"} :
        Process(tx, method)

SpecProcess == InitDoc /\ [][NextProcess]_vars

(***************************************************************************)
(* Plain objects.  A plain node object is a record of its type, its        *)
(* attributes (the level, 0 for none), and either its content (hasContent) *)
(* or its children; a plain content object holds the text, a sequence of   *)
(* characters, and the annotations, each with its type, its data (0 for    *)
(* none) and its range.  In an expanded annotation a range.end of 0 is an  *)
(* end not set yet.                                                        *)
(***************************************************************************)
NoContent == [text |-> <<>>, annotations |-> <<>>]

\* es.DocumentModel.flattenPlainObjectContentNode: the annotations are
\* pushed onto the characters of their clamped range, in their order
flattenPlainObjectContentNode(obj) ==
    [j \in 1..Len(obj.text) |->
        LET Covers(src) ==
                /\ j - 1 >= Max(src.range.start, 0)
                /\ j - 1 < Min(src.range.end, Len(obj.text))
            over == SelectSeq(obj.annotations, Covers)
        IN  Char(obj.text[j],
                 [k \in 1..Len(over) |->
                     [type |-> over[k].type, data |-> over[k].data]])]

RECURSIVE flattenPlainObjectElementNode(_)
flattenPlainObjectElementNode(obj) ==
    LET RECURSIVE Children(_)
        Children(i) ==
            IF i > Len(obj.children) THEN <<>>
            ELSE flattenPlainObjectElementNode(obj.children[i])
                     \o Children(i + 1)
    IN  <<Open(obj.type, obj.attributes)>>
            \o (IF obj.hasContent
                THEN flattenPlainObjectContentNode(obj.content)
                ELSE Children(1))
            \o <<Close(obj.type)>>

newFromPlainObject(obj) ==
    LET RECURSIVE Children(_)
        Children(i) ==
            IF i > Len(obj.children) THEN <<>>
            ELSE flattenPlainObjectElementNode(obj.children[i])
                     \o Children(i + 1)
    IN  IF obj.type = "document" THEN DocumentModel(Children(1))
        ELSE [data |-> <<>>, nodes |-> <<>>, err |-> "Invalid object error"]

\* es.DocumentModel.getExpandedContentData.  end( offset ) is end with an
\* undefined annotation; typeOnly is getIndexOfAnnotation( item, annotation,
\* true ) # -1
getExpandedContentData(items) ==
    LET undefined == [type |-> "", data |-> 0]
        start(stack, offset, annotation) ==
            Append(stack, [type |-> annotation.type, data |-> annotation.data,
                           range |-> [start |-> offset, end |-> 0]])
        end(stack, offset, annotation) ==
            LET open == {i \in 1..Len(stack) : stack[i].range.end = 0}
                same == {i \in open : /\ stack[i].type = annotation.type
                                      /\ stack[i].data = annotation.data}
            IN  IF annotation = undefined
                THEN [i \in 1..Len(stack) |->
                         IF i \in open
                         THEN [stack[i] EXCEPT !.range.end = offset]
                         ELSE stack[i]]
                ELSE IF same = {} THEN stack
                ELSE [stack EXCEPT
                          ![CHOOSE i \in same : \A j \in same : j <= i]
                              .range.end = offset]
        typeOnly(annotations, annotation) ==
            \E k \in 1..Len(annotations) :
                annotations[k].type = annotation.type
        RECURSIVE EndLeft(_, _, _, _, _)
        EndLeft(stack, offset, left, right, j) ==
            IF j > Len(left) THEN stack
            ELSE EndLeft(IF ~typeOnly(right, left[j])
                         THEN end(stack, offset, left[j])
                         ELSE stack,
                         offset, left, right, j + 1)
        RECURSIVE StartRight(_, _, _, _, _)
        StartRight(stack, offset, left, right, j) ==
            IF j > Len(right) THEN stack
            ELSE StartRight(IF ~typeOnly(left, right[j])
                            THEN start(stack, offset, right[j])
                            ELSE stack,
                            offset, left, right, j + 1)
        RECURSIVE Scan(_, _, _)
        Scan(i, left, stack) ==
            IF i > Len(items)
            THEN IF Len(items) > 0 THEN end(stack, Len(items), undefined)
                 ELSE stack
            ELSE LET right == items[i].an
                 IN  Scan(i + 1, right,
                          IF left # <<>> /\ right = <<>>
                          THEN end(stack, i - 1, undefined)
                          ELSE IF right = <<>> THEN stack
                          ELSE StartRight(
                                   EndLeft(stack, i - 1, left, right, 1),
                                   i - 1, left, right, 1))
    IN  [text |-> [i \in 1..Len(items) |-> items[i].t],
         annotations |-> Scan(1, <<>>, <<>>)]

\* getPlainObject of es.DocumentModelBranchNode and es.DocumentModelLeafNode;
\* the element of a node is the opening marker at its offset
RECURSIVE getPlainObject(_, _, _)
getPlainObject(ns, d, id) ==
    LET offset == getOffsetFromNode(ns, Root, id, FALSE)
    IN  [type |-> ns[id].type,
         attributes |-> IF id = Root THEN 0 ELSE d[offset + 1].at,
         hasContent |-> ns[id].leaf,
         content |->
             IF ns[id].leaf
             THEN getExpandedContentData(
                      JsSlice(d, offset + 1, offset + 1 + ns[id].len))
             ELSE NoContent,
         children |->
             IF ns[id].leaf THEN <<>>
             ELSE [i \in 1..Len(ns[id].children) |->
                      getPlainObject(ns, d, ns[id].children[i])]]

(***************************************************************************)
(* Documents made from plain objects: a document is made from a plain      *)
(* object with newFromPlainObject and read back with getPlainObject.       *)
(***************************************************************************)
MaxText == 3

MaxAnnotations == 2

\* Well-formed plain objects: a paragraph, at the top or inside a list
\* item, whose annotations lie inside the text; two annotations of the same
\* type do not overlap, and do not touch when their data are the same too
PlainObjects ==
    LET Text(n) == [i \in 1..n |-> <<"a", "b", "c", "d">>[i]]
        Ranged(n) ==
            {[type |-> a.type, data |-> a.data,
              range |-> [start |-> r[1], end |-> r[2]]] :
                 a \in {Bold, [type |-> "link", data |-> 1],
                        [type |-> "link", data |-> 2]},
                 r \in {q \in (0..n) \X (0..n) : q[1] < q[2]}}
        Apart(as) ==
            \A i, j \in 1..Len(as) :
                (i # j /\ as[i].type = as[j].type) =>
                    \/ as[i].range.end < as[j].range.start
                    \/ as[j].range.end < as[i].range.start
                    \/ /\ as[i].data # as[j].data
                       /\ \/ as[i].range.end = as[j].range.start
                          \/ as[j].range.end = as[i].range.start
        Contents(n) ==
            {[text |-> Text(n), annotations |-> as] :
                 as \in {q \in UNION {[1..m -> Ranged(n)] :
                                          m \in 0..MaxAnnotations} :
                             Apart(q)}}
        Branch(type, attributes, children) ==
            [type |-> type, attributes |-> attributes, hasContent |-> FALSE,
             content |-> NoContent, children |-> children]
        Leaf(c) ==
            [type |-> "paragraph", attributes |-> 0, hasContent |-> TRUE,
             content |-> c, children |-> <<>>]
    IN  UNION {{Branch("document", 0, <<Leaf(c)>>),
                Branch("document", 0,
                       <<Branch("list", 1, <<Branch("listItem", 0,
                                                    <<Leaf(c)>>)>>),
                         Leaf(NoContent)>>)} :
                   c \in UNION {Contents(n) : n \in 0..MaxText}}

InitPlain ==
    \E obj \in PlainObjects :
        InitCommon(newFromPlainObject(obj)) /\ plain = obj

GetPlainObject ==
    /\ plain' = getPlainObject(nodes, data, Root)
    /\ lastOp' = Op("getPlainObject")
    /\ UNCHANGED <<data, nodes, thrown, txCount, failures, journal,
                   surfaceVars, ghostVars>>

SpecPlain == InitPlain /\ [][GetPlainObject]_vars

(***************************************************************************)
(* Properties of the document model, checked under SpecDoc.                *)
(***************************************************************************)
\* The tree below a node: types, content lengths, nesting and child order
RECURSIVE TreeOf(_, _)
TreeOf(ns, id) ==
    [type |-> ns[id].type, len |-> ns[id].len,
     children |-> [i \in 1..Len(ns[id].children) |->
                      TreeOf(ns, ns[id].children[i])]]

\* The same with the content lengths of the leaves only
RECURSIVE ShapeOf(_, _)
ShapeOf(ns, id) ==
    [type |-> ns[id].type, len |-> IF ns[id].leaf THEN ns[id].len ELSE 0,
     children |-> [i \in 1..Len(ns[id].children) |->
                      ShapeOf(ns, ns[id].children[i])]]

\* The nodes of the tree below (and including) a node
RECURSIVE TreeNodes(_, _)
TreeNodes(ns, id) ==
    {id} \cup UNION {TreeNodes(ns, ns[id].children[i]) :
                         i \in 1..Len(ns[id].children)}

\* The stack of open element types after scanning d[i..]; <<"!">> on top
\* marks a closing marker that matches no opening at its depth
RECURSIVE OpenAfter(_, _, _)
OpenAfter(d, i, stack) ==
    IF i > Len(d) THEN stack
    ELSE IF IsOpening(d[i]) THEN OpenAfter(d, i + 1, Append(stack, d[i].t))
    ELSE IF IsClosing(d[i])
    THEN IF Len(stack) > 0 /\ stack[Len(stack)] = d[i].t
         THEN OpenAfter(d, i + 1, SubSeq(stack, 1, Len(stack) - 1))
         ELSE <<"!">>
    ELSE OpenAfter(d, i + 1, stack)

WellFormed(d) == OpenAfter(d, 1, <<>>) = <<>>

\* A document is valid: the array is well-formed, the tree is the one the
\* array describes and the root's content length is the length of the array
ConsistentDocument(d, ns) ==
    LET Same(built) ==
            /\ built.err = NoError
            /\ ShapeOf(ns, Root).children =
                   [i \in 1..Len(built.list) |->
                       ShapeOf(built.nodes, built.list[i])]
    IN  /\ WellFormed(d)
        /\ ns[Root].len = Len(d)
        /\ Same(createNodesFromData(ns, d))

Consistent == ConsistentDocument(data, nodes)

OnlyCommits == Len(journal) = txCount

HasOperation(tx, types) ==
    \E i \in 1..Len(tx.operations) : tx.operations[i].type \in types

\* C1: after committing or rolling back prepared transactions without an
\* exception, the children of the document node are exactly the nodes that
\* createNodesFromData builds from the linear array: same types, nesting,
\* child order and leaf content lengths.
C1_TreeMatchesData ==
    (lastOp.name \in {"commit", "rollback"} /\ ~failed) =>
        LET built == createNodesFromData(nodes, data)
        IN  /\ built.err = NoError
            /\ ShapeOf(nodes, Root).children =
                   [i \in 1..Len(built.list) |->
                       ShapeOf(built.nodes, built.list[i])]

\* C2: after any sequence of commits, every branch's content length is the
\* sum of its children's element lengths, an element length is the content
\* length plus 2, and the root's content length is the length of the array.
C2_LengthsAddUp ==
    (lastOp.name = "commit" /\ OnlyCommits /\ ~failed) =>
        /\ \A id \in TreeNodes(nodes, Root) :
               /\ ~nodes[id].leaf =>
                      nodes[id].len =
                          SumElementLength(nodes, nodes[id].children, 1)
               /\ id # Root => getElementLength(nodes, id) = nodes[id].len + 2
        /\ nodes[Root].len = Len(data)

\* C3: rolling back a transaction right after committing it restores the
\* linear array (attributes and annotation lists included) and every node's
\* content length.
C3_RollbackRestores ==
    [][(lastOp.name = "commit" /\ lastOp'.name = "rollback"
            /\ failures' = 0) =>
           /\ data' = journal[Len(journal)].data
           /\ TreeOf(nodes', Root) =
                  TreeOf(journal[Len(journal)].nodes, Root)]_vars

\* C5: from a well-formed array, committing a prepared removal or a
\* prepared insertion leaves the array well-formed.
C5_StaysWellFormed ==
    (/\ lastOp.name = "commit"
     /\ txCount = 1
     /\ WellFormed(journal[1].data)
     /\ HasOperation(lastOp.tx, {"insert", "remove"})
     /\ ~failed) => WellFormed(data)

\* C11: at every 'update' notification emitted on a node of the document
\* while a transaction is committed or rolled back, the tree is consistent
\* with the linear array: the root's content length is the length of the
\* array and the tree is the one the array describes.
C11_UpdatesSeeWholeTree ==
    [][lastOp'.name \in {"commit", "rollback"} =>
           LET P == ProcessFrom(TransactionProcessor(Document),
                                lastOp'.tx.operations, 1, lastOp'.name)
               Whole(u) ==
                   LET built == createNodesFromData(u.nodes, u.data)
                   IN  /\ u.nodes[Root].len = Len(u.data)
                       /\ built.err = NoError
                       /\ ShapeOf(u.nodes, Root).children =
                              [i \in 1..Len(built.list) |->
                                  ShapeOf(built.nodes, built.list[i])]
           IN  \A i \in 1..Len(P.updates) : Whole(P.updates[i])]_vars

\* C13: for data holding no element markers, prepareInsertion(offset, data)
\* produces retain(offset) only if offset > 0, then insert(D), then
\* retain(length - offset) only if offset < length, where D is data between
\* a paragraph opening and a paragraph closing at a structural offset (an
\* edge of the array, or between two markers that are not an opening and its
\* own closing) and data unchanged at any other offset.
C13_PureContentInsertion ==
    \A o \in 0..Len(data), d \in {<<X>>, <<X, Char("a", <<Bold>>)>>} :
        LET r == prepareInsertion(Document, o, d)
            ops == r.tx.operations
            structural ==
                \/ o = 0
                \/ o = Len(data)
                \/ /\ IsElement(data[o]) /\ IsElement(data[o + 1])
                   /\ ~(IsOpening(data[o]) /\ IsClosing(data[o + 1])
                          /\ data[o].t = data[o + 1].t)
            D == IF structural
                 THEN <<Open("paragraph", 0)>> \o d \o <<Close("paragraph")>>
                 ELSE d
            first == IF o > 0 THEN 1 ELSE 0
            last == IF o < Len(data) THEN 1 ELSE 0
        IN  /\ r.err = NoError
            /\ Len(ops) = first + 1 + last
            /\ o > 0 => ops[1].type = "retain" /\ ops[1].length = o
            /\ ops[first + 1].type = "insert" /\ ops[first + 1].data = D
            /\ o < Len(data) =>
                   /\ ops[first + 2].type = "retain"
                   /\ ops[first + 2].length = Len(data) - o

\* a document with an empty leaf, an inner structural offset and a content
\* offset between two characters, to insert into
C13_OffsetsOfEveryKind ==
    /\ lastOp.name = "commit"
    /\ \E o \in 1..(Len(data) - 1) :
           /\ IsOpening(data[o]) /\ IsClosing(data[o + 1])
           /\ prepareInsertion(Document, o, <<X>>).tx.operations[2].data = <<X>>
    /\ \E o \in 1..(Len(data) - 1) :
           /\ IsClosing(data[o]) /\ IsOpening(data[o + 1])
           /\ Len(prepareInsertion(Document, o, <<X>>).tx.operations[2].data) = 3
    /\ \E o \in 1..(Len(data) - 1) :
           ~IsElement(data[o]) /\ ~IsElement(data[o + 1])

\* C14: in a valid document, for data that starts with an opening marker,
\* prepareInsertion inserts a balanced version of data: every orphan closing
\* marker, however many there are, is removed, every other item is kept in
\* its order, and every unclosed opening is closed at the end; at a content
\* offset the balanced data is inserted between a closing and an opening
\* marker of the type of the leaf that encloses the offset.
C14_BalancedInsertion ==
    Consistent =>
    \A o \in 0..Len(data),
       d \in {<<Open("paragraph", 0), X>>,
              <<Open("list", 1), Open("listItem", 0), X, Close("listItem")>>,
              <<Open("paragraph", 0), X, Close("paragraph"),
                Close("paragraph")>>,
              <<Open("paragraph", 0), Close("paragraph"), Close("paragraph"),
                Close("listItem"), X>>} :
        LET RECURSIVE Balanced(_, _, _)
            Balanced(i, stack, kept) ==
                IF i > Len(d)
                THEN kept \o [j \in 1..Len(stack) |->
                                 Close(stack[Len(stack) + 1 - j])]
                ELSE IF IsOpening(d[i])
                THEN Balanced(i + 1, Append(stack, d[i].t), Append(kept, d[i]))
                ELSE IF IsClosing(d[i]) /\ Len(stack) = 0
                THEN Balanced(i + 1, stack, kept)
                ELSE IF IsClosing(d[i])
                THEN Balanced(i + 1, SubSeq(stack, 1, Len(stack) - 1),
                              Append(kept, d[i]))
                ELSE Balanced(i + 1, stack, Append(kept, d[i]))
            r == prepareInsertion(Document, o, d)
            inserted == r.tx.operations[IF o > 0 THEN 2 ELSE 1]
            structural ==
                \/ o = 0
                \/ o = Len(data)
                \/ /\ IsElement(data[o]) /\ IsElement(data[o + 1])
                   /\ ~(IsOpening(data[o]) /\ IsClosing(data[o + 1])
                          /\ data[o].t = data[o + 1].t)
            RECURSIVE Enclosing(_)
            Enclosing(i) ==
                IF IsOpening(data[i]) THEN data[i].t ELSE Enclosing(i - 1)
        IN  /\ r.err = NoError
            /\ inserted.type = "insert"
            /\ inserted.data =
                   IF structural THEN Balanced(1, <<>>, <<>>)
                   ELSE <<Close(Enclosing(o))>> \o Balanced(1, <<>>, <<>>)
                            \o <<Open(Enclosing(o), 0)>>

C16_UnmergeableRemovalThrows ==
    Consistent =>
    \A start \in 0..Len(data), end \in 0..Len(data) :
        LET RECURSIVE Mergeable(_, _)
            Mergeable(n1, n2) ==
                \/ n1 = n2
                \/ /\ nodes[n1].type = nodes[n2].type
                   /\ nodes[n1].parent # 0
                   /\ nodes[n2].parent # 0
                   /\ Mergeable(nodes[n1].parent, nodes[n2].parent)
            touched == selectNodes(nodes, Root, start, end, FALSE, 0).list
        IN  (/\ start < end
             /\ Len(touched) > 0
             /\ ~Mergeable(touched[1].node, touched[Len(touched)].node)) =>
                prepareRemoval(Document, Range(start, end)).err # NoError

\* C17: in a valid document, after committing
\* prepareContentAnnotation(range, 'set', a) every content slot inside range
\* carries a exactly once, every element marker inside range and every slot
\* outside range is unchanged, and preparing the same call again yields a
\* transaction with no annotate operation.
C17_SetAnnotatesContentOnce ==
    [][Consistent =>
       \A r \in {Range(1, 2), Range(0, Len(data))}, a \in {Bold, Italic} :
           LET p == prepareContentAnnotation(Document, r, "set", a)
               Count(an) == Cardinality({j \in 1..Len(an) : an[j] = a})
               again == prepareContentAnnotation(
                            [data |-> data', nodes |-> nodes', err |-> NoError],
                            r, "set", a)
           IN  (/\ p.err = NoError
                /\ lastOp'.name = "commit"
                /\ lastOp'.tx = p.tx) =>
                   /\ thrown' = NoError
                   /\ Len(data') = Len(data)
                   /\ \A i \in 1..Len(data) :
                          IF i > r.start /\ i <= r.end /\ ~IsElement(data[i])
                          THEN /\ data'[i].k = "char"
                               /\ data'[i].t = data[i].t
                               /\ Count(data'[i].an) = 1
                               /\ \A b \in {Bold, Italic} \ {a} :
                                      inArray(b, data'[i].an) # -1
                                          <=> inArray(b, data[i].an) # -1
                          ELSE data'[i] = data[i]
                   /\ again.err = NoError
                   /\ ~HasOperation(again.tx, {"annotate"})]_vars

\* a set transaction over two whole paragraphs, markers included, has been
\* committed
C17_AnnotatedAcrossParagraphs ==
    /\ lastOp.name = "commit"
    /\ thrown = NoError
    /\ Len(journal) = 1
    /\ journal[1].data = DocPP
    /\ lastOp.tx = prepareContentAnnotation(
                       [data |-> DocPP, nodes |-> journal[1].nodes,
                        err |-> NoError], Range(0, 7), "set", Italic).tx
    /\ data[2].an = <<Italic>>
    /\ data[6].an = <<Italic>>

\* C18: in a valid document, committing the insertion of k items of pure
\* content at a content offset inside a leaf n makes the array the old array
\* with the items spliced in at the offset, raises the content length of n
\* and of every ancestor of n by k, and creates, removes or replaces no node:
\* every node keeps its identity, type, parent and children.
C18_ContentInsertionKeepsNodes ==
    [][Consistent =>
       \A o \in 1..(Len(data) - 1), d \in {<<X>>, <<X, X>>},
          n \in TreeNodes(nodes, Root) :
           LET p == prepareInsertion(Document, o, d)
               after == commit(Document, p.tx)
               left == getOffsetFromNode(nodes, Root, n, FALSE)
               RECURSIVE Above(_)
               Above(m) == IF m = 0 THEN {} ELSE {m} \cup Above(nodes[m].parent)
           IN  (/\ nodes[n].leaf
                /\ o > left /\ o <= left + 1 + nodes[n].len
                /\ lastOp'.name = "commit"
                /\ lastOp'.tx = p.tx) =>
                   /\ thrown' = NoError
                   /\ data' = SubSeq(data, 1, o) \o d
                                  \o SubSeq(data, o + 1, Len(data))
                   /\ nodes' = Reclaim(after.nodes)
                   /\ Len(after.nodes) = Len(nodes)
                   /\ \A m \in 1..Len(nodes) :
                          after.nodes[m] =
                              IF m \in Above(n)
                              THEN [nodes[m] EXCEPT !.len = @ + Len(d)]
                              ELSE nodes[m]]_vars

\* two characters have been inserted into the paragraph of a list item
C18_InsertedIntoListParagraph ==
    /\ lastOp.name = "commit"
    /\ thrown = NoError
    /\ Len(journal) = 1
    /\ journal[1].data = DocL
    /\ lastOp.tx = prepareInsertion([data |-> DocL, nodes |-> journal[1].nodes,
                                     err |-> NoError], 3, <<X, X>>).tx
    /\ Len(data) = 9
    /\ nodes[Root].len = 9

\* C19: for a transaction that prepareInsertion or prepareRemoval built on a
\* valid document and that inserts or removes only content inside one leaf,
\* a commit followed by a rollback restores the array item for item and the
\* content length of the leaf (and of every other node) to their values
\* before the commit.
C19_ContentEditRollsBack ==
    [][(/\ lastOp.name = "commit"
        /\ thrown = NoError
        /\ lastOp'.name = "rollback"
        /\ ConsistentDocument(journal[Len(journal)].data,
                              journal[Len(journal)].nodes)
        /\ LET ops == lastOp.tx.operations
               edits == {i \in 1..Len(ops) : ops[i].type \in {"insert", "remove"}}
           IN  /\ Cardinality(edits) = 1
               /\ \A i \in edits : ~containsElementData(ops[i].data)) =>
           /\ thrown' = NoError
           /\ data' = journal[Len(journal)].data
           /\ TreeOf(nodes', Root) =
                  TreeOf(journal[Len(journal)].nodes, Root)]_vars

\* all the content of a paragraph has been removed and the removal rolled
\* back
C19_RemovalRolledBack ==
    /\ lastOp.name = "rollback"
    /\ thrown = NoError
    /\ Len(journal) = 0
    /\ data = DocPP
    /\ lastOp.tx = prepareRemoval(Document, Range(4, 6)).tx

\* C21: for every child n of the document, the shallow
\* getNodeFromOffset(getOffsetFromNode(n, shallow), shallow) returns n.
C21_ShallowRoundTrip ==
    \A i \in 1..Len(nodes[Root].children) :
        LET n == nodes[Root].children[i]
        IN  getNodeFromOffset(nodes, Root,
                              getOffsetFromNode(nodes, Root, n, TRUE), TRUE) = n

\* C21 as amended: the shallow offset of a child n of the document is the
\* offset right before its opening marker, where getNodeFromOffset returns
\* the document; one slot further, inside n, it returns n.
C21_ShallowRoundTripInside ==
    \A i \in 1..Len(nodes[Root].children) :
        LET n == nodes[Root].children[i]
            offset == getOffsetFromNode(nodes, Root, n, TRUE)
        IN  /\ offset # -1
            /\ getNodeFromOffset(nodes, Root, offset, TRUE) = Root
            /\ getNodeFromOffset(nodes, Root, offset + 1, TRUE) = n

\* the document has an empty paragraph followed by another child
C21_EmptyChildThenAnother ==
    /\ lastOp.name = "commit"
    /\ Len(nodes[Root].children) >= 2
    /\ nodes[nodes[Root].children[1]].len = 0
    /\ getOffsetFromNode(nodes, Root, nodes[Root].children[2], TRUE) = 2

\* C22: in a valid document, prepareInsertion with an offset below 0 or
\* above the length of the array, and prepareRemoval with a range that
\* starts below 0 or ends past the end of the array, throw and return no
\* transaction.
C22_OutOfBoundsThrows ==
    Consistent =>
        /\ \A o \in {-1, Len(data) + 1}, d \in {<<X>>, Paragraph} :
               prepareInsertion(Document, o, d).err # NoError
        /\ \A from \in -1..(Len(data) + 1), to \in -1..(Len(data) + 1) :
               (Range(from, to).start < 0 \/ Range(from, to).end > Len(data))
                   => prepareRemoval(Document, Range(from, to)).err # NoError

\* C24: in a valid document a commit never replaces the whole tree: the
\* node of a top-level element that lies entirely outside the inserted or
\* removed span is still the same child of the document afterwards, also
\* when an element is inserted at the end of the document.
C24_OutsideNodesKeepIdentity ==
    [][Consistent =>
       \A i \in 1..Len(nodes[Root].children) :
           LET n == nodes[Root].children[i]
               left == getOffsetFromNode(nodes, Root, n, TRUE)
               right == left + nodes[n].len + 2
               Kept(p, from, to) ==
                   (/\ p.err = NoError
                    /\ lastOp'.name = "commit"
                    /\ lastOp'.tx = p.tx
                    /\ thrown' = NoError
                    /\ right <= from \/ to <= left) =>
                       LET after == commit(Document, p.tx)
                       IN  /\ \E j \in 1..Len(after.nodes[Root].children) :
                                  after.nodes[Root].children[j] = n
                           /\ after.nodes[n] = nodes[n]
           IN  /\ \A o \in 0..Len(data), d \in {<<X>>, <<X, X>>, Paragraph} :
                      Kept(prepareInsertion(Document, o, d), o, o)
               /\ \A from \in 0..Len(data), to \in 0..Len(data) :
                      from < to =>
                          Kept(prepareRemoval(Document, Range(from, to)),
                               from, to)]_vars

\* C25: in a valid document and for every in-bounds range, also one that
\* starts at offset 0 or between two elements, prepareLeafConversion returns
\* for every leaf the range touches, in document order, a removal followed
\* by an insertion; committing them in order leaves the length of the
\* document and every character with its annotations as they were, and
\* gives exactly the touched leaves the new type and attributes.
C25_LeafConversion ==
    Consistent =>
        \A from \in 0..Len(data), to \in 0..Len(data) :
            LET Touched(n) ==
                    LET left == getOffsetFromNode(nodes, Root, n, FALSE)
                    IN  /\ nodes[n].leaf
                        /\ Max(from, left + 1) <= Min(to, left + 1 + nodes[n].len)
                touched == {n \in TreeNodes(nodes, Root) : Touched(n)}
                MarkerOf(n, k) ==
                    LET left == getOffsetFromNode(nodes, Root, n, FALSE)
                    IN  k = left + 1 \/ k = left + 2 + nodes[n].len
                expected ==
                    [k \in 1..Len(data) |->
                        IF \E n \in touched : MarkerOf(n, k)
                        THEN IF IsOpening(data[k]) THEN Open("heading", 1)
                             ELSE Close("heading")
                        ELSE data[k]]
                RECURSIVE CommitAll(_, _, _)
                CommitAll(doc, txs, i) ==
                    IF i > Len(txs) \/ doc.err # NoError THEN doc
                    ELSE CommitAll(commit(doc, txs[i]), txs, i + 1)
                Removes(tx) ==
                    /\ \E j \in 1..Len(tx.operations) :
                           tx.operations[j].type = "remove"
                    /\ \A j \in 1..Len(tx.operations) :
                           tx.operations[j].type # "insert"
                Inserts(tx) ==
                    /\ \E j \in 1..Len(tx.operations) :
                           tx.operations[j].type = "insert"
                    /\ \A j \in 1..Len(tx.operations) :
                           tx.operations[j].type # "remove"
                Holds(r) ==
                    /\ r.err = NoError
                    /\ Len(r.txs) = 2 * Cardinality(touched)
                    /\ \A j \in 1..Len(r.txs) :
                           IF j % 2 = 1 THEN Removes(r.txs[j])
                           ELSE Inserts(r.txs[j])
                    /\ CommitAll(Document, r.txs, 1).err = NoError
                    /\ CommitAll(Document, r.txs, 1).data = expected
            IN  from <= to =>
                    Holds(prepareLeafConversion(Document, Range(from, to),
                                                "heading", 1))

\* C26: in a valid document and for every non-empty in-bounds range,
\* selectNodes returns entries in document order whose globalRanges are
\* ascending, pairwise disjoint and inside the range; the entry of a fully
\* covered node has no range and a globalRange from its opening marker to
\* past its closing marker; the entry of a partially covered node has a
\* range inside its content that, translated by the start of its content,
\* is its globalRange.
C26_SelectedNodes ==
    Consistent =>
        \A from \in 0..Len(data), to \in 0..Len(data), shallow \in BOOLEAN :
            LET left(n) == getOffsetFromNode(nodes, Root, n, FALSE)
                inside(n) == IF n = Root THEN 0 ELSE left(n) + 1
                Holds(sel) ==
                    /\ sel.err = NoError
                    /\ Len(sel.list) > 0
                    /\ \A i \in 1..Len(sel.list) :
                           LET e == sel.list[i]
                           IN  /\ e.node \in TreeNodes(nodes, Root)
                               /\ from <= e.globalRange.start
                               /\ e.globalRange.start <= e.globalRange.end
                               /\ e.globalRange.end <= to
                               /\ i < Len(sel.list) =>
                                      /\ e.globalRange.end
                                             <= sel.list[i + 1].globalRange.start
                                      /\ left(e.node) < left(sel.list[i + 1].node)
                               /\ ~e.hasRange =>
                                      /\ e.globalRange.start = left(e.node)
                                      /\ e.globalRange.end
                                             = left(e.node) + nodes[e.node].len + 2
                               /\ e.hasRange =>
                                      /\ 0 <= e.range.start
                                      /\ e.range.end <= nodes[e.node].len
                                      /\ e.globalRange.start
                                             = e.range.start + inside(e.node)
                                      /\ e.globalRange.end
                                             = e.range.end + inside(e.node)
            IN  from < to =>
                    Holds(selectNodes(nodes, Root, from, to, shallow, 0))

\* after a commit a range starts inside one node, covers another and ends
\* inside a third
C26_PartFullPart ==
    /\ lastOp.name = "commit"
    /\ Consistent
    /\ \E from \in 0..Len(data), to \in 0..Len(data) :
           LET Spans(sel) ==
                   /\ sel.err = NoError
                   /\ Len(sel.list) = 3
                   /\ sel.list[1].hasRange
                   /\ ~sel.list[2].hasRange
                   /\ sel.list[3].hasRange
           IN  from < to /\ Spans(selectNodes(nodes, Root, from, to, FALSE, 0))

\* Every node reachable from the document has the node that lists it among
\* its children as parent and the document as cached root
AllAttached(ns) ==
    \A p \in TreeNodes(ns, Root) :
        \A j \in 1..Len(ns[p].children) :
            /\ ns[ns[p].children[j]].parent = p
            /\ ns[ns[p].children[j]].root = Root

\* Every node of the tree before that is no longer in the tree after has
\* lost the document as cached root, and has no parent if it was taken out
\* of the children of a node that is still in the tree
AllDetached(before, after) ==
    \A m \in TreeNodes(before, Root) \ TreeNodes(after, Root) :
        /\ after[m].root # Root
        /\ before[m].parent \in TreeNodes(after, Root) => after[m].parent = 0

\* C27: in every state reached by construction and commits each node
\* reachable from the document has as parent the node whose children list
\* contains it and as cached root the document; a node that a commit's
\* splice, a pop or a shift removes from the tree has parent null, and it
\* and its descendants no longer have the document as cached root.
C27_ParentsAndRoots ==
    /\ [](/\ AllAttached(nodes)
          /\ \A b \in TreeNodes(nodes, Root) :
                 ~nodes[b].leaf =>
                     /\ AllAttached(pop(nodes, b).nodes)
                     /\ AllDetached(nodes, pop(nodes, b).nodes)
                     /\ AllAttached(shift(nodes, b).nodes)
                     /\ AllDetached(nodes, shift(nodes, b).nodes))
    /\ [][\A tx \in DocTransactions :
              (lastOp'.name = "commit" /\ lastOp'.tx = tx) =>
                  /\ AllAttached(commit(Document, tx).nodes)
                  /\ AllDetached(nodes, commit(Document, tx).nodes)]_vars

\* a commit has removed a list with its item and paragraph from the tree
C27_BranchRemoved ==
    /\ lastOp.name = "commit"
    /\ thrown = NoError
    /\ Len(journal) > 0
    /\ \E m \in TreeNodes(journal[Len(journal)].nodes, Root) :
           LET before == journal[Len(journal)].nodes
               after == commit([data |-> journal[Len(journal)].data,
                                nodes |-> before, err |-> NoError],
                               lastOp.tx).nodes
           IN  /\ before[m].type = "list"
               /\ Len(before[m].children) > 0
               /\ m \notin TreeNodes(after, Root)

\* C28: on every node of the document, setContentLength with a negative
\* length and adjustContentLength with an adjustment that would make the
\* length negative throw and leave the content length of the node and of
\* every ancestor as it was; a successful call changes the content length
\* of the node and of every ancestor by the same amount and nothing else
\* (the quiet argument only selects whether 'update' is emitted), and in a
\* valid document every other call is successful.
C28_ContentLengthChanges ==
    \A n \in TreeNodes(nodes, Root) :
        LET RECURSIVE Above(_)
            Above(m) == IF m = 0 THEN {} ELSE {m} \cup Above(nodes[m].parent)
            Moved(delta) ==
                [m \in 1..Len(nodes) |->
                    IF m \in Above(n) THEN [nodes[m] EXCEPT !.len = @ + delta]
                    ELSE nodes[m]]
            Holds(r, delta) ==
                IF nodes[n].len + delta < 0
                THEN r.err # NoError /\ r.nodes = nodes
                ELSE /\ Consistent => r.err = NoError
                     /\ r.err = NoError => r.nodes = Moved(delta)
        IN  /\ \A delta \in (0 - nodes[n].len - 2)..2 :
                   Holds(adjustContentLength(nodes, n, delta), delta)
            /\ \A contentLength \in -2..(nodes[n].len + 2) :
                   Holds(setContentLength(nodes, n, contentLength),
                         contentLength - nodes[n].len)

\* a commit has made the paragraph of a list item one character longer, and
\* its parent, the list and the document with it
C28_NestedLeafGrown ==
    /\ lastOp.name = "commit"
    /\ thrown = NoError
    /\ Len(journal) = 1
    /\ journal[1].data = DocL
    /\ Len(data) = 8
    /\ nodes[Root].len = 8
    /\ \E n \in TreeNodes(nodes, Root) :
           /\ nodes[n].leaf
           /\ nodes[n].len = 2
           /\ nodes[nodes[n].parent].type = "listItem"
           /\ nodes[nodes[n].parent].len = 4
           /\ adjustContentLength(nodes, n, -3).err # NoError

\* C29: for every range inside the array getAnnotationsFromRange returns
\* full, partial and all with full and partial disjoint and all their
\* union; an annotation is in full exactly when it is on every content item
\* of the range (markers are not counted) and there is one, and in partial
\* exactly when it is on at least one content item of the range but not on
\* all; an annotation on the middle character only of a word of three is
\* partial and not full for the range of the word.
C29_AnnotationsFromRange ==
    \A from \in 0..Len(data), to \in 0..Len(data) :
        LET slots == {i \in (from + 1)..to : ~IsElement(data[i])}
            On(a, i) == \E j \in 1..Len(data[i].an) : data[i].an[j] = a
            In(a, list) == \E k \in 1..Len(list) : list[k] = a
            Holds(r) ==
                /\ \A k \in 1..Len(r.all) : \A l \in 1..Len(r.all) :
                       r.all[k] = r.all[l] => k = l
                /\ \A a \in {Bold, Italic} \cup {r.all[k] : k \in 1..Len(r.all)} :
                       /\ ~(In(a, r.full) /\ In(a, r.partial))
                       /\ In(a, r.all) <=> (In(a, r.full) \/ In(a, r.partial))
                       /\ In(a, r.full) <=>
                              /\ slots # {}
                              /\ \A i \in slots : On(a, i)
                       /\ In(a, r.partial) <=>
                              /\ \E i \in slots : On(a, i)
                              /\ \E i \in slots : ~On(a, i)
        IN  from <= to => Holds(getAnnotationsFromRange(Document, Range(from, to)))

\* a paragraph holds a word of three characters of which only the middle
\* one is bold: bold is partial and not full for the range of the word
C29_MiddleCharacterBold ==
    /\ lastOp.name = "commit"
    /\ Len(data) = 5
    /\ data[2].an = <<>>
    /\ data[3].an = <<Bold>>
    /\ data[4].an = <<>>
    /\ getAnnotationsFromRange(Document, Range(1, 4)).partial = <<Bold>>
    /\ getAnnotationsFromRange(Document, Range(1, 4)).full = <<>>

\* C33: when the processor, with its cursor at the start of a range, comes
\* to a remove operation whose data is that range of the array and holds an
\* element marker, and the first and the last node the range covers in part
\* are not at the same depth or differ in type at some level below their
\* common ancestor, it throws the invalid merge error and neither the array
\* nor the tree has changed; when they are at the same depth with the same
\* types, it does not throw that error.
C33_InvalidMergeThrows ==
    \A from \in 0..Len(data), to \in 0..Len(data) :
        LET RECURSIVE Up(_, _)
            Up(n, k) == IF k = 0 \/ n = 0 THEN n ELSE Up(nodes[n].parent, k - 1)
            RECURSIVE Depth(_)
            Depth(n) == IF nodes[n].parent = 0 THEN 0
                        ELSE 1 + Depth(nodes[n].parent)
            Invalid(n1, n2) ==
                \/ Depth(n1) # Depth(n2)
                \/ \E k \in 0..Depth(n1) :
                       /\ Up(n1, k) # Up(n2, k)
                       /\ nodes[Up(n1, k)].type # nodes[Up(n2, k)].type
            MergeErrors == {"Removal is not a valid merge: no common ancestor",
                            "Removal is not a valid merge: different types"}
            Holds(sel, P) ==
                LET kept == SelectSeq(sel.list, LAMBDA e : e.hasRange)
                IN  (sel.err = NoError /\ Len(kept) > 0) =>
                        IF Invalid(kept[1].node, kept[Len(kept)].node)
                        THEN /\ P.err \in MergeErrors
                             /\ P.data = data
                             /\ P.nodes = nodes
                        ELSE P.err \notin MergeErrors
        IN  (from < to /\ containsElementData(JsSlice(data, from, to))) =>
                Holds(selectNodes(nodes, Root, from, to, FALSE, 0),
                      remove([TransactionProcessor(Document) EXCEPT
                                  !.cursor = from],
                             [Operation("remove") EXCEPT
                                  !.data = JsSlice(data, from, to)]))

\* after a commit a range runs from inside a paragraph of the document to
\* inside the paragraph of a list item: removing it is no valid merge
C33_ParagraphToListParagraph ==
    /\ lastOp.name = "commit"
    /\ Consistent
    /\ \E from \in 0..Len(data), to \in 0..Len(data) :
           /\ from < to
           /\ nodes[getNodeFromOffset(nodes, Root, from, FALSE)].type
                  = "paragraph"
           /\ nodes[getNodeFromOffset(nodes, Root, from, FALSE)].parent = Root
           /\ nodes[getNodeFromOffset(nodes, Root, to, FALSE)].type = "paragraph"
           /\ nodes[nodes[getNodeFromOffset(nodes, Root, to, FALSE)].parent].type
                  = "listItem"
           /\ remove([TransactionProcessor(Document) EXCEPT !.cursor = from],
                     [Operation("remove") EXCEPT
                          !.data = JsSlice(data, from, to)]).err
                  = "Removal is not a valid merge: no common ancestor"

\* The slots of the array a transaction walks over: the lengths of its
\* retain operations plus the lengths of the data of its remove operations
RECURSIVE ConsumedLength(_, _)
ConsumedLength(operations, i) ==
    IF i > Len(operations) THEN 0
    ELSE (IF operations[i].type = "retain" THEN operations[i].length
          ELSE IF operations[i].type = "remove"
          THEN Len(operations[i].data)
          ELSE 0) + ConsumedLength(operations, i + 1)

RECURSIVE NestingViolatedFrom(_, _, _)
NestingViolatedFrom(d, i, stack) ==
    IF i > Len(d) THEN FALSE
    ELSE IF IsOpening(d[i])
    THEN LET p == stack[Len(stack)]
             t == d[i].t
         IN  \/ ~nodeRules[t].anyParent /\ p \notin nodeRules[t].parents
             \/ ~nodeRules[p].anyChild /\ t \notin nodeRules[p].children
             \/ NestingViolatedFrom(d, i + 1, Append(stack, t))
    ELSE IF IsClosing(d[i])
    THEN Len(stack) > 1
         /\ NestingViolatedFrom(d, i + 1, SubSeq(stack, 1, Len(stack) - 1))
    ELSE NestingViolatedFrom(d, i + 1, stack)

NestingViolated(d) == NestingViolatedFrom(d, 1, <<"document">>)

\* C23: building the node tree from an array in which an element is nested
\* under a parent type that its nesting rule does not allow (a listItem
\* directly under the document, a paragraph directly under a list) fails
\* with an error.
C23_ViolatedNestingFails ==
    \A o \in 0..Len(data) :
        \A e \in {Paragraph, <<Open("listItem", 0), Close("listItem")>>} :
            LET d == SubSeq(data, 1, o) \o e \o SubSeq(data, o + 1, Len(data))
            IN  NestingViolated(d) => DocumentModel(d).err # NoError

(***************************************************************************)
(* Properties of the processor, checked under SpecProcess.                 *)
(***************************************************************************)
\* C12: when commit or rollback reaches an operation of an unrecognized
\* type, a stop-bias annotate with no active start or an attribute
\* operation on a content slot, it throws at that operation: the array and
\* the tree are as the operations before it left them, and no later
\* operation is applied.
C12_ThrowsAtFailingOperation ==
    [][(/\ lastOp'.name \in {"commit", "rollback"}
        /\ thrown' \in {"Invalid operation error", "Annotation stack error",
                        "Invalid element error"}) =>
           \E k \in 1..Len(lastOp'.tx.operations) :
               LET before == ProcessFrom(TransactionProcessor(Document),
                                         SubSeq(lastOp'.tx.operations, 1,
                                                k - 1),
                                         1, lastOp'.name)
               IN  /\ before.err = NoError
                   /\ operationMap(before, lastOp'.tx.operations[k],
                                   lastOp'.name).err = thrown'
                   /\ data' = before.data
                   /\ TreeOf(nodes', Root) = TreeOf(before.nodes, Root)]_vars

\* an operation threw after an earlier one had changed the array
C12_ThrewAfterEffects ==
    /\ lastOp.name \in {"commit", "rollback"}
    /\ thrown \in {"Invalid operation error", "Annotation stack error",
                   "Invalid element error"}
    /\ data \notin InitialData
    /\ Len(lastOp.tx.operations) = 3

C32_AttributeOnOpeningOnly ==
    [][\A i \in 1..Len(lastOp'.tx.operations) :
           LET op == lastOp'.tx.operations[i]
               Handled(P) ==
                   LET Q == operationMap(P, op, lastOp'.name)
                   IN  (P.err = NoError /\ P.cursor < Len(P.data)) =>
                           IF IsOpening(P.data[P.cursor + 1])
                           THEN Q.data # P.data
                                    \/ Q.data[P.cursor + 1].at
                                           = IF lastOp'.name = "commit"
                                             THEN op.value ELSE 0
                           ELSE Q.err # NoError /\ Q.data = P.data
           IN  (lastOp'.name \in {"commit", "rollback"}
                    /\ op.type = "attribute") =>
                   Handled(ProcessFrom(TransactionProcessor(Document),
                                       SubSeq(lastOp'.tx.operations, 1, i - 1),
                                       1, lastOp'.name))]_vars

\* The total length of the data of the insert operations minus that of the
\* remove operations
RECURSIVE NetLength(_, _)
NetLength(operations, i) ==
    IF i > Len(operations) THEN 0
    ELSE (IF operations[i].type = "insert" THEN Len(operations[i].data)
          ELSE IF operations[i].type = "remove"
          THEN 0 - Len(operations[i].data)
          ELSE 0) + NetLength(operations, i + 1)

\* C30: the lengthDifference of a transaction equals the total length of
\* the data of its insert operations minus the total length of the data of
\* its remove operations, both for the transaction built with the push
\* methods and for the transaction constructed from its list of operations.
C30_LengthDifference ==
    /\ lastOp.tx.lengthDifference = NetLength(lastOp.tx.operations, 1)
    /\ TransactionModelOf(lastOp.tx.operations).lengthDifference
           = NetLength(lastOp.tx.operations, 1)

(***************************************************************************)
(* Properties of the plain objects, checked under SpecPlain.               *)
(***************************************************************************)
\* C20: for a well-formed plain object, the plain object read with
\* getPlainObject from the document that newFromPlainObject made of it is
\* structurally equal to it: the same types, attributes, nesting and text,
\* and the same annotations with the same ranges, whatever their order,
\* also when two adjacent runs carry annotations of one type with different
\* data.
C20_PlainObjectRoundTrip ==
    [][(lastOp.name = "new" /\ lastOp'.name = "getPlainObject") =>
           LET RECURSIVE Structure(_)
               Structure(obj) ==
                   [type |-> obj.type, attributes |-> obj.attributes,
                    hasContent |-> obj.hasContent,
                    text |-> obj.content.text,
                    annotations |->
                        {obj.content.annotations[i] :
                             i \in 1..Len(obj.content.annotations)},
                    children |-> [i \in 1..Len(obj.children) |->
                                     Structure(obj.children[i])]]
           IN  Structure(plain') = Structure(plain)]_vars

(***************************************************************************)
(* Properties of the surface model, checked under Spec.                    *)
(***************************************************************************)
\* breakpoint() as the claims describe it: a non-empty smallStack becomes
\* one more entry of bigStack, with the current selection
FlushedStack ==
    IF Len(smallStack) > 0
    THEN Append(bigStack, [stack |-> smallStack, selection |-> selection])
    ELSE bigStack

SameStacks(big1, big2) ==
    /\ Len(big1) = Len(big2)
    /\ \A i \in 1..Len(big1) : big1[i].stack = big2[i].stack

\* C4: N undo()s from undoIndex = 0 bring the linear array back to what it
\* was before the transactions of the last N breakpoints; N redo()s after
\* them restore the array and the selection to what they were before the
\* first undo().
C4_UndoRedoRestore ==
    ~failed =>
        /\ (run.undos > 0 /\ run.redos = 0 /\ run.undos <= Len(hist)) =>
               data = hist[Len(hist) - run.undos + 1]
        /\ (run.undos > 0 /\ run.redos = run.undos) =>
               (data = tip.data /\ selection = tip.selection)

\* C6: transact(tx) leaves in bigStack exactly the breakpoints that were
\* not undone, sets undoIndex to 0 and makes tx the last entry of
\* smallStack.
C6_TransactDropsUndone ==
    [][lastOp'.name = "transact" =>
           /\ bigStack' = SubSeq(bigStack, 1,
                                 Max(0, Len(bigStack) - undoIndex))
           /\ undoIndex' = 0
           /\ Len(smallStack') > 0
           /\ smallStack'[Len(smallStack')] = lastOp'.tx]_vars

\* C7: undo() flushes smallStack into a new breakpoint, increments
\* undoIndex and, when a breakpoint exists at bigStack.length - undoIndex,
\* rolls its transactions back last to first, keeps the entries of bigStack
\* in place and selects its saved selection moved by minus the sum of their
\* lengthDifference.
C7_UndoSteps ==
    [][lastOp'.name = "undo" =>
           LET big == FlushedStack
               k == Len(big) - (undoIndex + 1) + 1
               r == RollbackLoop(Document, big[k].stack, Len(big[k].stack), 0)
           IN  /\ smallStack' = <<>>
               /\ undoIndex' = undoIndex + 1
               /\ SameStacks(bigStack', big)
               /\ IF k >= 1 /\ k <= Len(big)
                  THEN /\ r.doc.err = NoError
                       /\ data' = r.doc.data
                       /\ TreeOf(nodes', Root) = TreeOf(r.doc.nodes, Root)
                       /\ selection' =
                              Selection(big[k].selection.from - r.diff,
                                        big[k].selection.to - r.diff)
                  ELSE UNCHANGED <<data, nodes, selection>>]_vars

\* C8: redo() with undoIndex = 0 and an empty smallStack changes nothing;
\* with undoIndex > 0 and a breakpoint at bigStack.length - undoIndex it
\* commits that breakpoint's transactions first to last, selects its saved
\* selection moved by plus the sum of their lengthDifference, and
\* decrements undoIndex.
C8_RedoSteps ==
    [][lastOp'.name = "redo" =>
           LET k == Len(bigStack) - undoIndex + 1
               r == CommitLoop(Document, bigStack[k].stack, 1, 0)
           IN  /\ (undoIndex = 0 /\ smallStack = <<>>) =>
                      UNCHANGED <<data, nodes, selection, smallStack,
                                  bigStack, undoIndex>>
               /\ (undoIndex > 0 /\ k >= 1 /\ k <= Len(bigStack)) =>
                      /\ r.doc.err = NoError
                      /\ data' = r.doc.data
                      /\ TreeOf(nodes', Root) = TreeOf(r.doc.nodes, Root)
                      /\ selection' =
                             Selection(bigStack[k].selection.from + r.diff,
                                       bigStack[k].selection.to + r.diff)
                      /\ undoIndex' = undoIndex - 1]_vars

\* C9: breakpoint() with a non-empty smallStack appends one entry to
\* bigStack, holding the transactions of smallStack in commit order and a
\* copy of the current selection, and empties smallStack; with an empty
\* smallStack it changes nothing.
C9_BreakpointSteps ==
    [][lastOp'.name \in {"breakpoint", "timer"} =>
           /\ bigStack' = FlushedStack
           /\ smallStack' = <<>>
           /\ ~selection'.isNull \/ smallStack = <<>>
           /\ UNCHANGED <<data, nodes, selection, undoIndex>>]_vars

\* C10: the timer-driven breakpoint() changes only smallStack and bigStack:
\* the linear array, the node tree, the selection and undoIndex stay as
\* they were.
C10_TimerTouchesStacksOnly ==
    [][lastOp'.name = "timer" =>
           UNCHANGED <<data, nodes, selection, undoIndex>>]_vars

C10_TimerFlushed ==
    /\ lastOp.name = "timer"
    /\ lastOp.flushed
    /\ Len(bigStack) > 0
    /\ smallStack = <<>>

\* The transactions of the first n breakpoints, in commit order
RECURSIVE TransactionsOf(_, _)
TransactionsOf(big, n) ==
    IF n <= 0 THEN <<>> ELSE TransactionsOf(big, n - 1) \o big[n].stack

\* C34: in every state reached by select, transact, breakpoint (manual or
\* timer), undo and redo, the linear array is the one obtained by
\* committing to the initial document, in order, every transaction of the
\* breakpoints bigStack[0 .. max(0, bigStack.length - undoIndex)) followed
\* by every transaction of smallStack.
C34_ArrayIsHistoryReplayed ==
    LET Replayed(txs) == CommitLoop(DocumentModel(origin), txs, 1, 0).doc.data
    IN  origin # NoOrigin =>
            data = Replayed(TransactionsOf(bigStack,
                                           Max(0, Len(bigStack) - undoIndex))
                            \o smallStack)

\* C35: 0 <= undoIndex <= bigStack.length in every reachable state of the
\* surface, including after an undo() that found no breakpoint left to
\* undo and after purgeHistory().
C35_UndoIndexWithinHistory ==
    undoIndex >= 0 /\ undoIndex <= Len(bigStack)

\* C36: whenever undoIndex > 0, smallStack is empty.
C36_UndoneMeansFlushed ==
    undoIndex > 0 => smallStack = <<>>

C36_UndoneAfterTransactions ==
    /\ undoIndex > 0
    /\ lastOp.name = "undo"
    /\ lastOp.flushed
    /\ smallStack = <<>>
    /\ thrown = NoError

\* C37: breakpoint() never fails, whether the timer, undo(), redo() or a
\* manual select() calls it: wherever smallStack is non-empty the selection
\* is non-null, also when transact() runs before the first select() or
\* after purgeHistory().
C37_BreakpointNeverFails ==
    /\ Len(smallStack) > 0 => ~selection.isNull
    /\ breakpoint(Surface).thrown = NoError

\* C38: every selection passed to select() lies within [0, data.length]
\* when it is passed (Selections offers no other), and then after any
\* sequence of transact, breakpoint, undo and redo the current selection's
\* from and to still lie within [0, data.length].
C38_SelectionWithinData ==
    ~selection.isNull =>
        /\ selection.from >= 0 /\ selection.from <= Len(data)
        /\ selection.to >= 0 /\ selection.to <= Len(data)

\* C39: when the commit inside transact(tx) throws, tx is already the last
\* entry of smallStack and the breakpoints that could be redone are already
\* gone from bigStack with undoIndex back at 0, so the history holds a
\* transaction that was not fully applied, and no 'transact' event is
\* emitted.
C39_ThrowingTransactIsRecorded ==
    [][(lastOp'.name = "transact" /\ thrown' # NoError) =>
           /\ smallStack' = Append(smallStack, lastOp'.tx)
           /\ bigStack' = SubSeq(bigStack, 1,
                                 Max(0, Len(bigStack) - undoIndex))
           /\ undoIndex' = 0
           /\ lastOp'.emitted = <<>>]_vars

====
